---------------------------- MODULE Spec2Model ----------------------------
(***************************************************************************)
(* A model of the file-persistence and path-authorization code of          *)
(* siliconflow-image-mcp (src/src/services/siliconflow.ts and the tool     *)
(* handlers in src/src/tools).                                             *)
(*                                                                         *)
(* Strings are sequences of letters.  A letter is either one of the        *)
(* characters "/" and "." or an atom: a fixed run of characters holding    *)
(* neither of them ("home", "user", "png", ...).  The atoms are chosen so  *)
(* that no atom is a prefix of another one, so two letter sequences are    *)
(* equal (or one a prefix of the other) exactly when the character strings *)
(* they stand for are.                                                     *)
(***************************************************************************)
EXTENDS Integers, Sequences, FiniteSets, TLC

(***************************************************************************)
(* Bounds of the model.                                                    *)
(***************************************************************************)
\* longest path string handed to isPathAllowed / editImage, in letters
MaxPathLen == 4
\* longest tail of a base64 payload that is enumerated letter by letter
MaxBody == 2
\* number of distinct values crypto.randomBytes(8) is drawn from
NumSuffixes == 2

(***************************************************************************)
(* Generic helpers.                                                        *)
(***************************************************************************)
SeqsUpTo(S, n) == UNION {[1..k -> S] : k \in 0..n}

IsPrefix(p, s) == Len(p) <= Len(s) /\ SubSeq(s, 1, Len(p)) = p

Last(s) == s[Len(s)]

Range(s) == {s[i] : i \in DOMAIN s}

(***************************************************************************)
(* node:path, POSIX flavour.                                               *)
(***************************************************************************)
Sep == "/"

Dot == <<".">>

DotDot == <<".", ".">>

\* the "/"-separated segments of s (empty segments included)
RECURSIVE SplitFrom(_, _, _, _)
SplitFrom(s, i, cur, acc) ==
    IF i > Len(s) THEN Append(acc, cur)
    ELSE IF s[i] = Sep THEN SplitFrom(s, i + 1, <<>>, Append(acc, cur))
    ELSE SplitFrom(s, i + 1, Append(cur, s[i]), acc)

Split(s) == SplitFrom(s, 1, <<>>, <<>>)

RECURSIVE JoinSegs(_)
JoinSegs(segs) ==
    IF Len(segs) = 0 THEN <<>>
    ELSE IF Len(segs) = 1 THEN segs[1]
    ELSE segs[1] \o <<Sep>> \o JoinSegs(Tail(segs))

\* normalizeString of node:path: drops empty and "." segments, lets ".."
\* remove the segment before it; above the root ".." is kept only when
\* allowAboveRoot
RECURSIVE NormSegs(_, _, _, _)
NormSegs(segs, i, allowAboveRoot, stack) ==
    IF i > Len(segs) THEN stack
    ELSE LET g == segs[i] IN
         IF g = <<>> \/ g = Dot
         THEN NormSegs(segs, i + 1, allowAboveRoot, stack)
         ELSE IF g = DotDot
         THEN IF Len(stack) > 0 /\ Last(stack) # DotDot
              THEN NormSegs(segs, i + 1, allowAboveRoot,
                            SubSeq(stack, 1, Len(stack) - 1))
              ELSE IF allowAboveRoot
              THEN NormSegs(segs, i + 1, allowAboveRoot, Append(stack, g))
              ELSE NormSegs(segs, i + 1, allowAboveRoot, stack)
         ELSE NormSegs(segs, i + 1, allowAboveRoot, Append(stack, g))

normalizeString(p, allowAboveRoot) ==
    JoinSegs(NormSegs(Split(p), 1, allowAboveRoot, <<>>))

isAbsolute(p) == Len(p) > 0 /\ p[1] = Sep

\* path.resolve(p) in a process whose working directory is wd (absolute)
pathResolve(p, wd) ==
    LET full == IF isAbsolute(p) THEN p
                ELSE IF Len(p) = 0 THEN wd
                ELSE wd \o <<Sep>> \o p
    IN  <<Sep>> \o normalizeString(full, FALSE)

\* path.normalize(p)
pathNormalize(p) ==
    IF Len(p) = 0 THEN Dot
    ELSE LET abs  == isAbsolute(p)
             trailing == Last(p) = Sep
             n    == normalizeString(p, ~abs)
             n1   == IF Len(n) = 0 /\ ~abs THEN Dot ELSE n
             n2   == IF Len(n1) > 0 /\ trailing THEN Append(n1, Sep) ELSE n1
         IN  IF abs THEN <<Sep>> \o n2 ELSE n2

\* path.join(a, b)
pathJoin(a, b) ==
    IF Len(a) = 0 /\ Len(b) = 0 THEN Dot
    ELSE IF Len(a) = 0 THEN pathNormalize(b)
    ELSE IF Len(b) = 0 THEN pathNormalize(a)
    ELSE pathNormalize(a \o <<Sep>> \o b)

\* path.dirname of an absolute, normalized path
dirname(p) ==
    LET segs == NormSegs(Split(p), 1, FALSE, <<>>)
    IN  IF Len(segs) = 0 THEN <<Sep>>
        ELSE <<Sep>> \o JoinSegs(SubSeq(segs, 1, Len(segs) - 1))

(***************************************************************************)
(* Base64 payloads.                                                        *)
(*                                                                         *)
(* A payload is the value handed to saveImageToFile as base64Data.  A      *)
(* string is kept as [typ |-> "string", fill, body]: fill copies of the    *)
(* character "A" followed by the characters of body.  fill is always a     *)
(* multiple of 4, so the fill is a whole number of base64 groups and       *)
(* decodes to (fill \div 4) * 3 zero bytes.  A value that is not a string  *)
(* (undefined, null, a number) has typ "other".                            *)
(***************************************************************************)
B64Table ==
    << "A","B","C","D","E","F","G","H","I","J","K","L","M","N","O","P",
       "Q","R","S","T","U","V","W","X","Y","Z","a","b","c","d","e","f",
       "g","h","i","j","k","l","m","n","o","p","q","r","s","t","u","v",
       "w","x","y","z","0","1","2","3","4","5","6","7","8","9","+","/" >>

\* the character class [A-Za-z0-9+/]
B64Alphabet == Range(B64Table)

B64Index(c) == (CHOOSE i \in DOMAIN B64Table : B64Table[i] = c) - 1

Str(fill, body) == [typ |-> "string", fill |-> fill, body |-> body]

NotAString == [typ |-> "other", fill |-> 0, body |-> <<>>]

\* base64Data.length
StrLen(d) == d.fill + Len(d.body)

\* number of leading characters of s taken by [A-Za-z0-9+/]*
RECURSIVE AlphaRun(_, _)
AlphaRun(s, i) ==
    IF i <= Len(s) /\ s[i] \in B64Alphabet THEN AlphaRun(s, i + 1) ELSE i - 1

\* mutant of base64Regex: any number of "=" may end the string
base64RegexAnyPadding(d) ==
    LET n    == AlphaRun(d.body, 1)
        rest == SubSeq(d.body, n + 1, Len(d.body))
    IN  \A i \in DOMAIN rest : rest[i] = "="

\* /^[A-Za-z0-9+/]*={0,2}$/.test(d): the greedy run of alphabet characters,
\* then at most two "=" up to the end of the string
base64Regex(d) ==
    LET n    == AlphaRun(d.body, 1)
        rest == SubSeq(d.body, n + 1, Len(d.body))
    IN  Len(rest) <= 2 /\ \A i \in DOMAIN rest : rest[i] = "="

\* a byte buffer: zeros zero bytes followed by the bytes of bytes
Buf(zeros, bytes) == [zeros |-> zeros, bytes |-> bytes]

\* buffer.length
BufLen(b) == b.zeros + Len(b.bytes)

\* the bytes of a run of 6-bit values, as Buffer.from(s, "base64") builds
\* them: 4 values give 3 bytes, 3 give 2, 2 give 1, a single one none
RECURSIVE DecodeSextets(_)
DecodeSextets(x) ==
    IF Len(x) < 2 THEN <<>>
    ELSE IF Len(x) = 2 THEN << x[1] * 4 + x[2] \div 16 >>
    ELSE IF Len(x) = 3
    THEN << x[1] * 4 + x[2] \div 16, (x[2] % 16) * 16 + x[3] \div 4 >>
    ELSE << x[1] * 4 + x[2] \div 16,
            (x[2] % 16) * 16 + x[3] \div 4,
            (x[3] % 4) * 64 + x[4] >>
         \o DecodeSextets(SubSeq(x, 5, Len(x)))

\* mutant of bufferFromBase64: the string is read one byte per character
bufferFromBase64Latin1(d) == Buf(d.fill, [i \in 1..Len(d.body) |-> 0])

\* mutant of bufferFromBase64: a last group of fewer than 4 digits is dropped
bufferFromBase64WholeGroups(d) ==
    LET n == 4 * (AlphaRun(d.body, 1) \div 4)
    IN  Buf((d.fill \div 4) * 3,
            DecodeSextets([i \in 1..n |-> B64Index(d.body[i])]))

\* Buffer.from(d, "base64") of a string that passed base64Regex: decoding
\* stops at the first "="
bufferFromBase64(d) ==
    LET n == AlphaRun(d.body, 1)
    IN  Buf((d.fill \div 4) * 3,
            DecodeSextets([i \in 1..n |-> B64Index(d.body[i])]))

\* buffer.toString("base64") of a buffer whose zero run is a whole number
\* of 3-byte groups
RECURSIVE EncodeBytes(_)
EncodeBytes(b) ==
    IF Len(b) = 0 THEN <<>>
    ELSE IF Len(b) = 1
    THEN << B64Table[b[1] \div 4 + 1], B64Table[(b[1] % 4) * 16 + 1], "=", "=" >>
    ELSE IF Len(b) = 2
    THEN << B64Table[b[1] \div 4 + 1],
            B64Table[(b[1] % 4) * 16 + b[2] \div 16 + 1],
            B64Table[(b[2] % 16) * 4 + 1], "=" >>
    ELSE << B64Table[b[1] \div 4 + 1],
            B64Table[(b[1] % 4) * 16 + b[2] \div 16 + 1],
            B64Table[(b[2] % 16) * 4 + b[3] \div 64 + 1],
            B64Table[(b[3] % 64) + 1] >>
         \o EncodeBytes(SubSeq(b, 4, Len(b)))

\* mutant of bufferToBase64: the URL-safe alphabet is used
bufferToBase64Url(b) ==
    LET e == EncodeBytes(b.bytes)
    IN  Str((b.zeros \div 3) * 4,
            [i \in DOMAIN e |-> IF e[i] = "+" THEN "-"
                                ELSE IF e[i] = "/" THEN "_" ELSE e[i]])

bufferToBase64(b) == Str((b.zeros \div 3) * 4, EncodeBytes(b.bytes))

(***************************************************************************)
(* Validation (the error kinds stand for the messages of the code:         *)
(* InvalidInput "Invalid image data: expected string", InvalidFormat       *)
(* "Invalid base64 format", PayloadTooLarge "Image too large ..." and      *)
(* "Decoded image too large ...", UnsupportedMimeType "Invalid MIME type"; *)
(* FilesystemError is a rejection of fs.mkdir or fs.writeFile).            *)
(***************************************************************************)
MAX_IMAGE_SIZE == 10485760

\* mutant of estimatedSize: the factor 3 is lost
estimatedSizeQuarter(d) == (StrLen(d) + 3) \div 4

\* Math.ceil((base64Data.length * 3) / 4)
estimatedSize(d) == (StrLen(d) * 3 + 3) \div 4

\* mutant of validateBase64Image: the size estimate is not checked
validateBase64ImageNoEstimate(base64Data) ==
    IF base64Data.typ # "string" \/ StrLen(base64Data) = 0 THEN "InvalidInput"
    ELSE IF ~base64Regex(base64Data) THEN "InvalidFormat"
    ELSE "ok"

validateBase64Image(base64Data) ==
    IF base64Data.typ # "string" \/ StrLen(base64Data) = 0 THEN "InvalidInput"
    ELSE IF ~base64Regex(base64Data) THEN "InvalidFormat"
    ELSE IF estimatedSize(base64Data) > MAX_IMAGE_SIZE THEN "PayloadTooLarge"
    ELSE "ok"

allowedMimeTypes == <<"image/png", "image/jpeg", "image/jpg", "image/webp">>

\* mutant of validateMimeType: every image/* type is let through
validateMimeTypeLax(mimeType) ==
    IF mimeType = "" THEN "UnsupportedMimeType" ELSE "ok"

validateMimeType(mimeType) ==
    IF mimeType \notin Range(allowedMimeTypes) THEN "UnsupportedMimeType"
    ELSE "ok"

\* mutant of validateUntrusted: the MIME type is validated first
validateUntrustedMimeFirst(base64Data, mimeType) ==
    IF validateMimeType(mimeType) # "ok"
    THEN validateMimeType(mimeType)
    ELSE validateBase64Image(base64Data)

\* the two validation calls that open saveImageToFile, in their order: the
\* first one that throws ends the call
validateUntrusted(base64Data, mimeType) ==
    IF validateBase64Image(base64Data) # "ok"
    THEN validateBase64Image(base64Data)
    ELSE validateMimeType(mimeType)

\* mutant of extensionOf: only image/jpeg is told from PNG
extensionOfJpegOnly(mimeType) ==
    IF mimeType = "image/jpeg" THEN "jpg" ELSE "png"

\* the file extension chosen from the MIME type
extensionOf(mimeType) ==
    IF mimeType = "image/jpeg" \/ mimeType = "image/jpg" THEN "jpg"
    ELSE IF mimeType = "image/webp" THEN "webp"
    ELSE "png"

\* the size check made on the decoded buffer
checkDecodedSize(buffer) ==
    IF BufLen(buffer) > MAX_IMAGE_SIZE THEN "PayloadTooLarge" ELSE "ok"

(***************************************************************************)
(* The host: directories, files, symbolic links, environment.              *)
(***************************************************************************)
P_root == <<"/">>

P_home == <<"/", "home">>

P_user == <<"/", "home", "/", "user">>

P_out == <<"/", "home", "/", "user", "/", "out">>

\* os.homedir()
HomeDir == P_user

\* os.tmpdir()
TmpDir == <<"/", "tmp">>

\* the directories, files and symbolic links of the host when the server
\* starts
InitDirs == {P_root, P_home, P_user, TmpDir, <<"/", "etc">>}

InitFiles ==
    ( <<"/", "home", "/", "x">> :> Buf(0, <<1, 2, 3>>) )
    @@ ( <<"/", "x">> :> Buf(0, <<7>>) )
    @@ ( <<"/", "home", "/", "user", "/", "a", ".", "png">> :> Buf(0, <<4, 5>>) )
    @@ ( <<"/", "etc", "/", "passwd">> :> Buf(0, <<9, 9, 9, 9>>) )

\* symbolic links: the link's path and the path it points to
SymLinks ==
    ( <<"/", "home", "/", "user", "/", "link">> :> <<"/", "etc", "/", "passwd">> )
    @@ ( <<"/", "home", "/", "ln">> :> <<"/", "x">> )

\* values of SILICONFLOW_IMAGE_DIR (<<>>: not set)
EnvChoices == {<<>>, P_out, <<"out">>}

\* working directories of the process
CwdChoices == {P_home, P_root}

VARIABLES
    cwd,              \* process.cwd()
    imageDirEnv,      \* process.env.SILICONFLOW_IMAGE_DIR
    allowedImageDirs, \* SiliconFlowService.allowedImageDirs
    dirs,             \* the directories that exist
    files,            \* the regular files that exist, with their content
    calls,            \* the saveImageToFile calls in progress
    edit,             \* the editImage call in progress
    tool,             \* the tool handler (generate_image, edit_image) in progress
    built,            \* SILICONFLOW_IMAGE_DIR and process.cwd() when the service was built
    server            \* the process: its arguments and keys, how far main has come

vars == <<cwd, imageDirEnv, allowedImageDirs, dirs, files, calls, edit,
          tool, built, server>>

\* the tool handler, the record of the construction and the process, which
\* the service and the file utilities never write
others == <<tool, built, server>>

\* the file a path designates once the working directory and the symbolic
\* links are applied (what the operating system opens)
realpath(p, wd) ==
    LET r == pathResolve(p, wd)
    IN  IF r \in DOMAIN SymLinks THEN SymLinks[r] ELSE r

\* the directory and all the directories above it
Ancestors(r) ==
    LET segs == NormSegs(Split(r), 1, FALSE, <<>>)
    IN  { <<Sep>> \o JoinSegs(SubSeq(segs, 1, k)) : k \in 0..Len(segs) }

(***************************************************************************)
(* SiliconFlowService: the allowed directories and the guard.              *)
(***************************************************************************)
getDefaultAllowedDirs(wd, customDir) ==
    (IF Len(HomeDir) > 0 THEN <<HomeDir>> ELSE <<>>)
    \o (IF Len(wd) > 0 THEN <<wd>> ELSE <<>>)
    \o (IF Len(customDir) > 0 THEN <<customDir>> ELSE <<>>)
    \o <<TmpDir>>

\* mutant of matchesAllowedDir: the separator is not appended
matchesAllowedDirNoSep(resolvedPath, resolvedAllowedDir) ==
    \/ IsPrefix(resolvedAllowedDir, resolvedPath)
    \/ resolvedPath = resolvedAllowedDir

\* the test made on one allowed directory
matchesAllowedDir(resolvedPath, resolvedAllowedDir) ==
    \/ IsPrefix(resolvedAllowedDir \o <<Sep>>, resolvedPath)
    \/ resolvedPath = resolvedAllowedDir

RECURSIVE isPathAllowedFrom(_, _, _, _)
isPathAllowedFrom(resolvedPath, allowed, i, wd) ==
    IF i > Len(allowed) THEN FALSE
    ELSE IF matchesAllowedDir(resolvedPath, pathResolve(allowed[i], wd)) THEN TRUE
    ELSE isPathAllowedFrom(resolvedPath, allowed, i + 1, wd)

isPathAllowed(filePath, allowed, wd) ==
    isPathAllowedFrom(pathResolve(filePath, wd), allowed, 1, wd)

\* process.cwd() throws.  It does when the working directory cannot be
\* read; the directory the server runs in exists, and process.cwd() keeps
\* the answer it gave when the service was built
processCwdThrows == FALSE

\* mutant of pathResolveThrows: a path that is not absolute cannot be
\* resolved
pathResolveThrowsOnRelative(p, cwdThrows) == ~isAbsolute(p)

\* path.resolve(p) throws: it asks process.cwd() for the working directory
\* when p (a string) is not absolute, and throws when process.cwd() does
pathResolveThrows(p, cwdThrows) == cwdThrows /\ ~isAbsolute(p)

\* the loop of isPathAllowed throws: resolving an allowed directory throws
\* before one has matched
RECURSIVE isPathAllowedThrowsFrom(_, _, _, _, _)
isPathAllowedThrowsFrom(resolvedPath, allowed, i, wd, cwdThrows) ==
    IF i > Len(allowed) THEN FALSE
    ELSE IF pathResolveThrows(allowed[i], cwdThrows) THEN TRUE
    ELSE IF matchesAllowedDir(resolvedPath, pathResolve(allowed[i], wd)) THEN FALSE
    ELSE isPathAllowedThrowsFrom(resolvedPath, allowed, i + 1, wd, cwdThrows)

\* isPathAllowed(filePath) throws instead of returning
isPathAllowedThrows(filePath, allowed, wd, cwdThrows) ==
    \/ pathResolveThrows(filePath, cwdThrows)
    \/ isPathAllowedThrowsFrom(pathResolve(filePath, wd), allowed, 1, wd, cwdThrows)

(***************************************************************************)
(* SiliconFlowService.editImage.                                           *)
(***************************************************************************)
\* image.startsWith(w), w one of the atoms "data:image/", "http://",
\* "https://"
startsWith(image, w) == Len(image) > 0 /\ image[1] = w

\* String.prototype.toLowerCase on a letter
toLowerCase(c) ==
    IF c = "PNG" THEN "png" ELSE IF c = "JPG" THEN "jpg" ELSE c

RECURSIVE LastIndexOf(_, _, _)
LastIndexOf(s, c, i) ==
    IF i = 0 THEN 0 ELSE IF s[i] = c THEN i ELSE LastIndexOf(s, c, i - 1)

RECURSIVE StripTrailingSep(_)
StripTrailingSep(p) ==
    IF Len(p) > 0 /\ Last(p) = Sep THEN StripTrailingSep(SubSeq(p, 1, Len(p) - 1))
    ELSE p

\* path.extname(p): from the last "." of the last segment to its end; none
\* when the segment has no "." or only starts with it, or is ".."
extname(p) ==
    LET q    == StripTrailingSep(p)
        base == SubSeq(q, LastIndexOf(q, Sep, Len(q)) + 1, Len(q))
        k    == LastIndexOf(base, ".", Len(base))
    IN  IF k <= 1 \/ base = DotDot THEN <<>> ELSE SubSeq(base, k, Len(base))

\* the MIME type editImage gives a local file
mimeOfExtension(ext) ==
    LET e == [i \in DOMAIN ext |-> toLowerCase(ext[i])]
    IN  IF e = <<".", "png">> THEN "image/png"
        ELSE IF e = <<".", "jpg">> \/ e = <<".", "jpeg">> THEN "image/jpeg"
        ELSE IF e = <<".", "webp">> THEN "image/webp"
        ELSE "image/png"

\* a URL string contains the given extension
RECURSIVE includesAt(_, _, _)
includesAt(s, w, i) ==
    IF i + Len(w) - 1 > Len(s) THEN FALSE
    ELSE IF SubSeq(s, i, i + Len(w) - 1) = w THEN TRUE
    ELSE includesAt(s, w, i + 1)

includes(s, w) == includesAt(s, w, 1)

\* the MIME type generateImage and editImage give a downloaded image
mimeOfUrl(imageUrl) ==
    IF includes(imageUrl, <<".", "png">>) THEN "image/png"
    ELSE IF includes(imageUrl, <<".", "jpg">>) \/ includes(imageUrl, <<".", "jpeg">>)
    THEN "image/jpeg"
    ELSE "image/png"

DataUrlHead(mimeType) == <<"data:", mimeType, ";base64,">>

\* the value of imageContent: the letters of head followed by text
Content(head, text) == [head |-> head, text |-> text]

\* mutant of imageContentOf: the file is read whatever the guard answers
imageContentOfUnguarded(image, allowed, wd, fs, readFault) ==
    IF startsWith(image, "data:image/") \/ startsWith(image, "http://")
       \/ startsWith(image, "https://")
    THEN [guard |-> "notcalled", readFrom |-> <<>>,
          imageContent |-> Content(<<>>, Str(0, image))]
    ELSE LET r == realpath(image, wd)
             g == IF isPathAllowed(image, allowed, wd) THEN "allowed" ELSE "denied"
         IN  IF r \in DOMAIN fs /\ ~readFault
             THEN [guard |-> g, readFrom |-> r,
                   imageContent |-> Content(DataUrlHead(mimeOfExtension(extname(image))),
                                            bufferToBase64(fs[r]))]
             ELSE [guard |-> g, readFrom |-> <<>>,
                   imageContent |-> Content(DataUrlHead("image/png"), Str(0, image))]

\* what editImage makes of its image argument: the guard's answer, the file
\* read (its real path, <<>> when none is read) and the image sent.
\* readFault: the read of an existing file is refused by the host.
imageContentOf(image, allowed, wd, fs, readFault) ==
    IF startsWith(image, "data:image/")
    THEN [guard |-> "notcalled", readFrom |-> <<>>,
          imageContent |-> Content(<<>>, Str(0, image))]
    ELSE IF startsWith(image, "http://") \/ startsWith(image, "https://")
    THEN [guard |-> "notcalled", readFrom |-> <<>>,
          imageContent |-> Content(<<>>, Str(0, image))]
    ELSE IF ~isPathAllowed(image, allowed, wd)
    THEN [guard |-> "denied", readFrom |-> <<>>,
          imageContent |-> Content(DataUrlHead("image/png"), Str(0, image))]
    ELSE LET r == realpath(image, wd) IN
         IF r \in DOMAIN fs /\ ~readFault
         THEN [guard |-> "allowed", readFrom |-> r,
               imageContent |-> Content(DataUrlHead(mimeOfExtension(extname(image))),
                                        bufferToBase64(fs[r]))]
         ELSE [guard |-> "allowed", readFrom |-> <<>>,
               imageContent |-> Content(DataUrlHead("image/png"), Str(0, image))]

NoImage == [data |-> NotAString, mimeType |-> ""]

IdleEdit ==
    [pc |-> "idle", image |-> <<>>, guard |-> "notcalled", readFrom |-> <<>>,
     imageContent |-> Content(<<>>, Str(0, <<>>)),
     error |-> "", imageUrl |-> <<>>, result |-> NoImage]

\* letters the enumerated image arguments are made of
PathLetters == {"/", ".", "home", "x"}

\* image arguments given by name
NamedImages ==
    { <<>>,
      P_user,
      <<"/", "home", "/", "user", "/", "a">>,
      <<"/", "home", "/", "user", "/", "a", ".", "png">>,
      <<"/", "home", "/", "user", "x", "/", "secret">>,
      <<"/", "home", "/", "user", "/", ".", ".", "/", "etc", "/", "passwd">>,
      <<"/", "home", "/", "user", "/", "link">>,
      <<"/", "home", "/", "ln">>,
      <<"/", "home", "/", ".", ".", "/", "x">>,
      <<"/", "etc", "/", "passwd">>,
      <<"user", "/", "a", ".", "png">>,
      <<"Q", "Q", "=", "=">>,
      <<"data:image/", "png", ";base64,", "Q", "Q", "=", "=">>,
      <<"http://", "cdn", "/", "x">>,
      <<"https://", "home", "/", "x">> }

ImageArgs == (SeqsUpTo(PathLetters, MaxPathLen) \ {<<>>}) \cup NamedImages

\* editImage up to the request: the image argument is turned into the image
\* of the request body; an exception of the guard is caught by the outer
\* try and rethrown
EditStart(image, readFault) ==
    /\ edit.pc = "idle"
    /\ \A s \in DOMAIN calls : calls[s].pc = "idle"
    /\ LET c == imageContentOf(image, allowedImageDirs, cwd, files, readFault)
       IN  edit' =
             IF c.guard # "notcalled"
                /\ isPathAllowedThrows(image, allowedImageDirs, cwd, processCwdThrows)
             THEN [IdleEdit EXCEPT !.pc = "failed", !.image = image,
                                   !.guard = "threw", !.error = "guardThrew"]
             ELSE [IdleEdit EXCEPT !.pc = "request", !.image = image,
                                   !.guard = c.guard, !.readFrom = c.readFrom,
                                   !.imageContent = c.imageContent]
    /\ UNCHANGED <<cwd, imageDirEnv, allowedImageDirs, dirs, files, calls>>

\* URLs the service answers with
ImageUrls ==
    { <<"https://", "cdn", "/", "img", ".", "png">>,
      <<"https://", "cdn", "/", "img", ".", "jpeg">>,
      <<"https://", "cdn", "/", "img", ".", "webp">>,
      <<"https://", "cdn", "/", "img">>,
      <<"https://", "cdn", "/", "img", ".", "webp", "?", "v", ".", "png">> }

\* the bytes a download returns
DownloadBufs == {Buf(0, <<>>), Buf(0, <<255, 224>>), Buf(10485762, <<>>)}

\* editImage from the request on, when the API call fails, returns no
\* image, or the download fails: the call throws
EditFail(outcome) ==
    /\ edit.pc = "request"
    /\ edit' = [IdleEdit EXCEPT !.pc = "failed", !.error = outcome]
    /\ UNCHANGED <<cwd, imageDirEnv, allowedImageDirs, dirs, files, calls>>

\* editImage from the request on, when the image is downloaded: its bytes
\* are returned as base64, with the MIME type read off the URL (imageUrl
\* keeps the URL the image was downloaded from)
EditFinish(imageUrl, bytes) ==
    /\ edit.pc = "request"
    /\ edit' = [IdleEdit EXCEPT !.pc = "done", !.imageUrl = imageUrl,
                                !.result = [data |-> bufferToBase64(bytes),
                                            mimeType |-> mimeOfUrl(imageUrl)]]
    /\ UNCHANGED <<cwd, imageDirEnv, allowedImageDirs, dirs, files, calls>>

(***************************************************************************)
(* saveImageToFile.                                                        *)
(***************************************************************************)
getImageBaseDir(customDir) ==
    IF Len(customDir) > 0 THEN customDir
    ELSE pathJoin(TmpDir, <<"siliconflow-images">>)

\* crypto.randomBytes(8).toString("hex"): each value is one letter
HexWords == <<"00c1f0a2b3d4e5f6", "17a8b9c0d1e2f304", "2b5c6d7e8f901a2b", "3e4f5a6b7c8d9e0f">>

RandomSuffixes == {HexWords[i] : i \in 1..NumSuffixes}

\* mutant of filenameOf: the random suffix is left out of the name
filenameOfNoSuffix(prefix, randomSuffix, extension) ==
    prefix \o <<"_", ".", extension>>

\* `${prefix}_${randomSuffix}.${extension}`
filenameOf(prefix, randomSuffix, extension) ==
    prefix \o <<"_", randomSuffix, ".", extension>>

\* mutant of mkdirFails: an existing directory is an error (EEXIST), as
\* without { recursive: true }
mkdirFailsIfExists(dir, wd, fs, ds) ==
    \/ \E a \in Ancestors(pathResolve(dir, wd)) : a \in DOMAIN fs
    \/ pathResolve(dir, wd) \in ds

\* fs.mkdir(dir, { recursive: true }): the directory and the missing ones
\* above it are created; an existing directory is no error, a regular file
\* in the way is one
mkdirFails(dir, wd, fs, ds) == \E a \in Ancestors(pathResolve(dir, wd)) : a \in DOMAIN fs

mkdirRecursive(dir, wd, ds) == ds \cup Ancestors(pathResolve(dir, wd))

\* fs.writeFile(filepath, buffer): the directory of the file must exist and
\* the path must not be a directory; an existing file is replaced
writeFails(filepath, wd, ds) ==
    LET r == realpath(filepath, wd)
    IN  dirname(r) \notin ds \/ r \in ds

writeFile(filepath, wd, fs, buffer) ==
    LET r == realpath(filepath, wd)
    IN  [q \in DOMAIN fs \cup {r} |-> IF q = r THEN buffer ELSE fs[q]]

NoBuffer == Buf(0, <<>>)

IdleCall ==
    [pc |-> "idle", base64Data |-> NotAString, prefix |-> <<>>, mimeType |-> "",
     tempDir |-> <<>>, randomSuffix |-> "", filepath |-> <<>>,
     decoded |-> FALSE, buffer |-> NoBuffer, error |-> "", result |-> <<>>,
     after |-> {}, hostFault |-> FALSE]

\* the call up to its first await: the validations, then fs.mkdir is issued
\* (after: the calls that had returned when this one was made; hostFault: the
\* host refused an operation of this call)
SaveBegin(s, base64Data, prefix, mimeType) ==
    /\ calls[s].pc = "idle"
    /\ LET v == validateUntrusted(base64Data, mimeType)
           c == [IdleCall EXCEPT !.base64Data = base64Data, !.prefix = prefix,
                                 !.mimeType = mimeType,
                                 !.after = {t \in DOMAIN calls : calls[t].pc = "done"}]
       IN  calls' = [calls EXCEPT ![s] =
                 IF v # "ok" THEN [c EXCEPT !.pc = "failed", !.error = v]
                 ELSE [c EXCEPT !.pc = "mkdir",
                                !.tempDir = getImageBaseDir(imageDirEnv)]]
    /\ UNCHANGED <<cwd, imageDirEnv, allowedImageDirs, dirs, files, edit>>

\* fs.mkdir settles; on success the file name is drawn, the payload decoded,
\* its decoded size checked and fs.writeFile issued.
\* fault: the host refuses the operation (permissions, full disk, ...)
SaveMkdir(s, fault, randomSuffix) ==
    /\ calls[s].pc = "mkdir"
    /\ LET c == calls[s] IN
       IF fault \/ mkdirFails(c.tempDir, cwd, files, dirs)
       THEN /\ calls' = [calls EXCEPT ![s] =
                   [c EXCEPT !.pc = "failed", !.error = "FilesystemError",
                             !.hostFault = fault]]
            /\ dirs' = dirs
       ELSE LET filename == filenameOf(c.prefix, randomSuffix, extensionOf(c.mimeType))
                filepath == pathJoin(c.tempDir, filename)
                buffer   == bufferFromBase64(c.base64Data)
                d == [c EXCEPT !.randomSuffix = randomSuffix, !.filepath = filepath,
                               !.decoded = TRUE, !.buffer = buffer]
            IN  /\ calls' = [calls EXCEPT ![s] =
                       IF checkDecodedSize(buffer) # "ok"
                       THEN [d EXCEPT !.pc = "failed", !.error = checkDecodedSize(buffer)]
                       ELSE [d EXCEPT !.pc = "write"]]
                /\ dirs' = mkdirRecursive(c.tempDir, cwd, dirs)
    /\ UNCHANGED <<cwd, imageDirEnv, allowedImageDirs, files, edit>>

\* fs.writeFile settles and the call returns the path
SaveWrite(s, fault) ==
    /\ calls[s].pc = "write"
    /\ LET c == calls[s] IN
       IF fault \/ writeFails(c.filepath, cwd, dirs)
       THEN /\ calls' = [calls EXCEPT ![s] =
                   [c EXCEPT !.pc = "failed", !.error = "FilesystemError",
                             !.hostFault = fault]]
            /\ files' = files
       ELSE /\ calls' = [calls EXCEPT ![s] =
                   [c EXCEPT !.pc = "done", !.result = c.filepath]]
            /\ files' = writeFile(c.filepath, cwd, files, c.buffer)
    /\ UNCHANGED <<cwd, imageDirEnv, allowedImageDirs, dirs, edit>>

(***************************************************************************)
(* Inputs.                                                                 *)
(***************************************************************************)
\* lengths of the run of "A" that opens a payload: none, 13981012 (the
\* longest multiple of 4 whose estimate stays under MAX_IMAGE_SIZE) and
\* 13981016 (the next one)
FillChoices == {0, 13981012, 13981016}

BodyLetters == {"Q", "=", "!"}

\* payloads given by name: two images, then strings that are not base64 (a
\* data URL, "-", ":", a blank, a line feed, "=" in the middle, three "="),
\* then the padded payload of an image of exactly MAX_IMAGE_SIZE bytes
NamedPayloads ==
    { Str(0, <<"Q", "Q", "=", "=">>),
      Str(0, <<"/", "w", "=", "=">>),
      Str(0, <<"d", "a", "t", "a", ":", "i", "m", "a", "g", "e", "/", "p", "n", "g",
               ";", "b", "a", "s", "e", "6", "4", ",", "Q", "Q", "=", "=">>),
      Str(0, <<"Q", "-", "Q", "_">>),
      Str(0, <<"Q", "Q", " ">>),
      Str(0, <<"Q", "Q", "=", "=", "\n">>),
      Str(0, <<"Q", "=", "Q", "=">>),
      Str(0, <<"Q", "=", "=", "=">>),
      Str(13981016, <<"Q", "=", "=", "=">>),
      Str(13981012, <<"Q", "Q", "=", "=">>) }

Payloads ==
    {NotAString}
    \cup {Str(f, b) : f \in FillChoices, b \in SeqsUpTo(BodyLetters, MaxBody)}
    \cup NamedPayloads

MimeTypes == Range(allowedMimeTypes) \cup {"image/gif"}

\* the prefixes of the two call sites, and two a caller could pass
Prefixes ==
    { <<"edited">>, <<"generated_1">>, <<".", ".", "/", "img">>, <<"sub", "/", "img">> }

(***************************************************************************)
(* The input schemas of the tools (zod).  A value handed to a tool is kept *)
(* by its type and by what the schema looks at: the length of a free text, *)
(* the value of an enumerated string or of a number.                       *)
(***************************************************************************)
Undefined == [typ |-> "undefined"]

\* a string of n characters
Text(n) == [typ |-> "string", length |-> n]

\* a string given by its value
Word(v) == [typ |-> "string", value |-> v]

\* the integer e5 * 100000 + v, with 0 <= v < 100000 when e5 > 0 (a number
\* is kept in two parts so that the largest seed can be written)
BigNum(e5, v) == [typ |-> "number", e5 |-> e5, value |-> v, isInt |-> TRUE]

\* the integer v
Num(v) == BigNum(0, v)

\* the number v + 0.5
NumAndHalf(v) == [typ |-> "number", e5 |-> 0, value |-> v, isInt |-> FALSE]

\* z.string().min(lo).max(hi)
zText(x, lo, hi) == x.typ = "string" /\ x.length >= lo /\ x.length <= hi

\* z.string()
zString(x) == x.typ = "string"

\* z.enum(values)
zEnum(x, values) == x.typ = "string" /\ x.value \in values

\* z.number().int().min(lo).max(hiE5 * 100000 + hi), lo below 100000
zInt(x, lo, hiE5, hi) ==
    /\ x.typ = "number" /\ x.isInt
    /\ x.e5 > 0 \/ x.value >= lo
    /\ x.e5 < hiE5 \/ (x.e5 = hiE5 /\ x.value <= hi)

\* .optional()
zOptional(x, ok) == x.typ = "undefined" \/ ok

AspectRatios ==
    {"1:1", "2:3", "3:2", "3:4", "4:3", "4:5", "5:4", "9:16", "16:9", "21:9"}

ImageSizes == {"1K", "2K", "4K"}

\* a tool input that is an object with the given properties
GenerateInput(prompt, model, aspectRatio, imageSize, count, negativePrompt, seed) ==
    [isObject |-> TRUE, prompt |-> prompt, model |-> model,
     aspectRatio |-> aspectRatio, imageSize |-> imageSize, count |-> count,
     negativePrompt |-> negativePrompt, seed |-> seed]

EditInput(image, prompt, model) ==
    [isObject |-> TRUE, image |-> image, prompt |-> prompt, model |-> model]

\* a tool input that is no object (null, a string, ...)
NotAnObject == [isObject |-> FALSE]

\* mutant of GenerateImageInputSchema: count is not validated
GenerateImageInputSchemaAnyCount(input) ==
    /\ input.isObject
    /\ zText(input.prompt, 1, 2000)
    /\ zOptional(input.model, zString(input.model))
    /\ zOptional(input.aspectRatio, zEnum(input.aspectRatio, AspectRatios))
    /\ zOptional(input.imageSize, zEnum(input.imageSize, ImageSizes))
    /\ zOptional(input.negativePrompt, zString(input.negativePrompt))
    /\ zOptional(input.seed, zInt(input.seed, 0, 99999, 99999))

\* GenerateImageInputSchema.safeParse(input).success
GenerateImageInputSchema(input) ==
    /\ input.isObject
    /\ zText(input.prompt, 1, 2000)
    /\ zOptional(input.model, zString(input.model))
    /\ zOptional(input.aspectRatio, zEnum(input.aspectRatio, AspectRatios))
    /\ zOptional(input.imageSize, zEnum(input.imageSize, ImageSizes))
    /\ zOptional(input.count, zInt(input.count, 1, 0, 4))
    /\ zOptional(input.negativePrompt, zString(input.negativePrompt))
    /\ zOptional(input.seed, zInt(input.seed, 0, 99999, 99999))

\* EditImageInputSchema.safeParse(input).success
EditImageInputSchema(input) ==
    /\ input.isObject
    /\ input.image.typ = "string" /\ Len(input.image.value) >= 1
    /\ zText(input.prompt, 1, 2000)
    /\ zOptional(input.model, zString(input.model))

(***************************************************************************)
(* SiliconFlowService.generateImage, from the answer of the API on.        *)
(***************************************************************************)
\* most images the API answers with
MaxImages == 2

\* what fetch(img.url) gives: the URL, whether the response is ok, its bytes
Download(url, ok, bytes) == [url |-> url, ok |-> ok, bytes |-> bytes]

GenerateUrls ==
    { <<"https://", "cdn", "/", "img", ".", "png">>,
      <<"https://", "cdn", "/", "img", ".", "jpeg">> }

Downloads ==
    {Download(u, TRUE, b) : u \in GenerateUrls, b \in DownloadBufs}
    \cup {Download(<<"https://", "cdn", "/", "img", ".", "png">>, FALSE, Buf(0, <<>>))}

\* answers of the API: an error status, or a list of image URLs, each with
\* what its download gives
ApiAnswers ==
    {[ok |-> FALSE, images |-> <<>>]}
    \cup {[ok |-> TRUE, images |-> l] : l \in SeqsUpTo(Downloads, MaxImages)}

\* the ImageResult made of a download
imageResultOf(d) == [data |-> bufferToBase64(d.bytes), mimeType |-> mimeOfUrl(d.url)]

\* mutant of generateImage: the images whose download succeeded are returned
generateImageKeepsDownloaded(answer) ==
    IF ~answer.ok THEN [threw |-> TRUE, error |-> "apiError", images |-> <<>>]
    ELSE IF Len(answer.images) = 0
    THEN [threw |-> TRUE, error |-> "noImages", images |-> <<>>]
    ELSE [threw |-> FALSE, error |-> "",
          images |-> [k \in 1..Cardinality({j \in DOMAIN answer.images : answer.images[j].ok})
                        |-> imageResultOf(answer.images[
                              CHOOSE j \in DOMAIN answer.images :
                                 /\ answer.images[j].ok
                                 /\ Cardinality({h \in 1..j : answer.images[h].ok}) = k])]]

\* what generateImage settles with: it throws when the API call fails, when
\* the answer holds no image or when a download fails, and returns one
\* ImageResult per image otherwise
generateImage(answer) ==
    IF ~answer.ok THEN [threw |-> TRUE, error |-> "apiError", images |-> <<>>]
    ELSE IF Len(answer.images) = 0
    THEN [threw |-> TRUE, error |-> "noImages", images |-> <<>>]
    ELSE IF \E k \in DOMAIN answer.images : ~answer.images[k].ok
    THEN [threw |-> TRUE, error |-> "downloadFailed", images |-> <<>>]
    ELSE [threw |-> FALSE, error |-> "",
          images |-> [k \in DOMAIN answer.images |-> imageResultOf(answer.images[k])]]

(***************************************************************************)
(* index.ts: the process from its start to the running server.             *)
(***************************************************************************)
ToolNames == {"generate_image", "edit_image", "list_image_models"}

\* process.env.SILICONFLOW_API_KEY: unset or empty, only white space, a key
ApiKeys == {"unset", "blank", "set"}

\* the process as it starts (build: "--build" is among its arguments; mock:
\* SILICONFLOW_MOCK is "true"; isConnected: what testConnection returned;
\* networkCalls: the requests sent to the API; exitCode: -1 while it runs)
StartServer(build, apiKey, mock) ==
    [pc |-> "start", build |-> build, apiKey |-> apiKey, mock |-> mock,
     service |-> "none", isConnected |-> "untested", tools |-> {},
     connected |-> FALSE, networkCalls |-> 0, exitCode |-> -1]

\* a server started with a key that the API accepted
RunningServer ==
    [StartServer(FALSE, "set", FALSE) EXCEPT
        !.pc = "running", !.service = "real", !.isConnected = "true",
        !.tools = ToolNames, !.connected = TRUE, !.networkCalls = 1]

\* process.exit(code)
processExit(sv, code) == [sv EXCEPT !.pc = "exited", !.exitCode = code]

\* mutant of envCheckFails: the environment is not checked
envCheckFailsNever(apiKey, mock) == FALSE

\* !SILICONFLOW_API_KEY && !MOCK_MODE
envCheckFails(apiKey, mock) == apiKey = "unset" /\ ~mock

\* the constructor of SiliconFlowService throws
constructorThrows(apiKey) == apiKey = "unset" \/ apiKey = "blank"

\* the module is loaded: the build flag, then the environment check, then
\* main is called
Start ==
    /\ server.pc = "start"
    /\ server' = IF server.build THEN processExit(server, 0)
                 ELSE IF envCheckFails(server.apiKey, server.mock)
                 THEN processExit(server, 1)
                 ELSE [server EXCEPT !.pc = "main"]
    /\ UNCHANGED <<cwd, imageDirEnv, allowedImageDirs, dirs, files, calls, edit,
                   tool, built>>

\* main up to its first await: the mock service is made, or the service is
\* constructed and testConnection sends its request; an exception of the
\* constructor is caught by main
MainBuild ==
    /\ server.pc = "main"
    /\ IF server.mock
       THEN /\ server' = [server EXCEPT !.pc = "register", !.service = "mock"]
            /\ UNCHANGED <<allowedImageDirs, built>>
       ELSE IF constructorThrows(server.apiKey)
       THEN /\ server' = processExit(server, 1)
            /\ UNCHANGED <<allowedImageDirs, built>>
       ELSE /\ server' = [server EXCEPT !.pc = "testing", !.service = "real",
                                        !.isConnected = "pending",
                                        !.networkCalls = server.networkCalls + 1]
            /\ allowedImageDirs' = getDefaultAllowedDirs(cwd, imageDirEnv)
            /\ built' = [imageDirEnv |-> imageDirEnv, cwd |-> cwd]
    /\ UNCHANGED <<cwd, imageDirEnv, dirs, files, calls, edit, tool>>

\* what testConnection returns: true when GET /models succeeded, false when
\* it threw
testConnection(succeeded) == IF succeeded THEN "true" ELSE "false"

\* testConnection settles
TestConnection(succeeded) ==
    /\ server.pc = "testing"
    /\ LET isConnected == testConnection(succeeded) IN
       server' = IF isConnected # "true"
                 THEN processExit([server EXCEPT !.isConnected = isConnected], 1)
                 ELSE [server EXCEPT !.pc = "register", !.isConnected = isConnected]
    /\ UNCHANGED <<cwd, imageDirEnv, allowedImageDirs, dirs, files, calls, edit,
                   tool, built>>

\* the McpServer is made, the three tools are registered, server.connect is
\* called
Register ==
    /\ server.pc = "register"
    /\ server' = [server EXCEPT !.pc = "connecting", !.tools = ToolNames]
    /\ UNCHANGED <<cwd, imageDirEnv, allowedImageDirs, dirs, files, calls, edit,
                   tool, built>>

\* server.connect settles; its rejection is caught by main
Connect(ok) ==
    /\ server.pc = "connecting"
    /\ server' = IF ok THEN [server EXCEPT !.pc = "running", !.connected = TRUE]
                 ELSE processExit(server, 1)
    /\ UNCHANGED <<cwd, imageDirEnv, allowedImageDirs, dirs, files, calls, edit,
                   tool, built>>

\* the image of the mock service, "mock-base64-data" as image/png
MockImage ==
    [data |-> Str(0, <<"m", "o", "c", "k", "-", "b", "a", "s", "e", "6", "4", "-",
                       "d", "a", "t", "a">>),
     mimeType |-> "image/png"]

\* generateImage of the mock service
mockGenerateImage == [threw |-> FALSE, error |-> "", images |-> <<MockImage>>]

\* editImage of the mock service
mockEditImage == MockImage

(***************************************************************************)
(* The tool handlers generate_image and edit_image.                        *)
(***************************************************************************)
\* a ToolResponse: isError (FALSE: not set), the opening words of the text,
\* the error it reports, and for a success the number of images and the
\* paths it lists
Response(isError, text, detail, count, paths, tempDir) ==
    [isError |-> isError, text |-> text, detail |-> detail, count |-> count,
     paths |-> paths, tempDir |-> tempDir]

NoResponse == Response(FALSE, "", "", 0, <<>>, <<>>)

IdleTool ==
    [pc |-> "idle", name |-> "", input |-> NotAnObject, images |-> <<>>, i |-> 0,
     savedFiles |-> <<>>, response |-> NoResponse,
     serviceCalls |-> 0, saveLog |-> <<>>,
     answered |-> [ok |-> TRUE, downloads |-> <<>>]]

\* the response returned when safeParse fails
invalidInputResponse == Response(TRUE, "Invalid input", "schema", 0, <<>>, <<>>)

\* mutant of catchResponse: isError is not set
catchResponseNoFlag(name, message) ==
    Response(FALSE,
             IF name = "generate_image" THEN "Image generation failed"
             ELSE "Image editing failed",
             message, 0, <<>>, <<>>)

\* the response built in the catch block of a handler
catchResponse(name, message) ==
    Response(TRUE,
             IF name = "generate_image" THEN "Image generation failed"
             ELSE "Image editing failed",
             message, 0, <<>>, <<>>)

\* `generated_${i + 1}`, i the index of the loop
GeneratedNames == <<"generated_1", "generated_2", "generated_3", "generated_4">>

\* mutant of generatedPrefix: the index is not part of the prefix
generatedPrefixFixed(i) == << GeneratedNames[1] >>

\* mutant of generatedPrefix: the prefix names the parent directory
generatedPrefixAbove(i) == << ".", ".", "/", GeneratedNames[i + 1] >>

generatedPrefix(i) == << GeneratedNames[i + 1] >>

SaveArgs(base64Data, prefix, mimeType) ==
    [base64Data |-> base64Data, prefix |-> prefix, mimeType |-> mimeType]

\* generate_image is called: the input is parsed and, when it is valid,
\* service.generateImage is called
GenerateHandler(input) ==
    /\ server.pc = "running" /\ "generate_image" \in server.tools
    /\ tool.pc = "idle"
    /\ tool' = IF ~GenerateImageInputSchema(input)
               THEN [IdleTool EXCEPT !.pc = "returned", !.name = "generate_image",
                                     !.input = input,
                                     !.response = invalidInputResponse]
               ELSE [IdleTool EXCEPT !.pc = "service", !.name = "generate_image",
                                     !.input = input, !.serviceCalls = 1]
    /\ UNCHANGED <<cwd, imageDirEnv, allowedImageDirs, dirs, files, calls, edit,
                   built, server>>

\* the handler once service.generateImage has settled with r: the catch
\* block, the answer to an empty list, or the loop over the images
handleGenerated(t, r) ==
    IF r.threw
    THEN [t EXCEPT !.pc = "returned", !.response = catchResponse(t.name, r.error)]
    ELSE IF Len(r.images) = 0
    THEN [t EXCEPT !.pc = "returned",
                   !.response = Response(TRUE, "No images were generated",
                                         "noImages", 0, <<>>, <<>>)]
    ELSE [t EXCEPT !.pc = "loop", !.images = r.images, !.i = 0]

\* service.generateImage settles (answered keeps whether the API call and
\* each download succeeded)
GenerateSettles(answer) ==
    /\ tool.pc = "service" /\ tool.name = "generate_image"
    /\ server.service = "real"
    /\ tool' = handleGenerated(
                  [tool EXCEPT !.answered =
                      [ok |-> answer.ok,
                       downloads |-> [k \in DOMAIN answer.images |-> answer.images[k].ok]]],
                  generateImage(answer))
    /\ UNCHANGED <<cwd, imageDirEnv, allowedImageDirs, dirs, files, calls, edit,
                   built, server>>

\* generateImage of the mock service settles
MockGenerateSettles ==
    /\ tool.pc = "service" /\ tool.name = "generate_image"
    /\ server.service = "mock"
    /\ tool' = handleGenerated(tool, mockGenerateImage)
    /\ UNCHANGED <<cwd, imageDirEnv, allowedImageDirs, dirs, files, calls, edit,
                   built, server>>

\* the loop of generate_image: the next image is handed to saveImageToFile,
\* or, after the last one, the response is built
GenerateLoop ==
    /\ tool.pc = "loop" /\ tool.name = "generate_image"
    /\ IF tool.i < Len(tool.images)
       THEN LET img == tool.images[tool.i + 1]
                a   == SaveArgs(img.data, generatedPrefix(tool.i), img.mimeType)
            IN  /\ SaveBegin(1, a.base64Data, a.prefix, a.mimeType)
                /\ tool' = [tool EXCEPT !.pc = "saving",
                                        !.saveLog = Append(tool.saveLog, a)]
       ELSE /\ tool' = [tool EXCEPT !.pc = "returned",
                           !.response = Response(FALSE, "Successfully generated", "",
                                                 Len(tool.images), tool.savedFiles,
                                                 getImageBaseDir(imageDirEnv))]
            /\ UNCHANGED <<cwd, imageDirEnv, allowedImageDirs, dirs, files, calls, edit>>
    /\ UNCHANGED <<built, server>>

\* edit_image is called: the input is parsed and, when it is valid,
\* service.editImage is called and runs up to its request (the mock
\* service: up to its return).  The server takes a request when it has
\* none in progress.
EditHandler(input, readFault) ==
    /\ server.pc = "running" /\ "edit_image" \in server.tools
    /\ tool.pc \in {"idle", "returned"}
    /\ IF ~EditImageInputSchema(input)
       THEN /\ tool' = [IdleTool EXCEPT !.pc = "returned", !.name = "edit_image",
                                        !.input = input,
                                        !.response = invalidInputResponse]
            /\ UNCHANGED <<cwd, imageDirEnv, allowedImageDirs, dirs, files, calls, edit>>
       ELSE /\ tool' = [IdleTool EXCEPT !.pc = "service", !.name = "edit_image",
                                        !.input = input, !.serviceCalls = 1]
            /\ IF server.service = "mock"
               THEN /\ edit.pc = "idle"
                    /\ edit' = [IdleEdit EXCEPT !.pc = "done", !.result = mockEditImage]
                    /\ UNCHANGED <<cwd, imageDirEnv, allowedImageDirs, dirs, files, calls>>
               ELSE EditStart(input.image.value, readFault)
    /\ UNCHANGED <<built, server>>

\* service.editImage threw: the catch block of the handler answers
EditCatch ==
    /\ tool.pc = "service" /\ tool.name = "edit_image"
    /\ edit.pc = "failed"
    /\ tool' = [tool EXCEPT !.pc = "returned",
                            !.response = catchResponse(tool.name, edit.error)]
    /\ UNCHANGED <<cwd, imageDirEnv, allowedImageDirs, dirs, files, calls, edit,
                   built, server>>

\* service.editImage returned: the edited image is handed to saveImageToFile
EditSave ==
    /\ tool.pc = "service" /\ tool.name = "edit_image"
    /\ edit.pc = "done"
    /\ LET a == SaveArgs(edit.result.data, <<"edited">>, edit.result.mimeType)
       IN  /\ SaveBegin(1, a.base64Data, a.prefix, a.mimeType)
           /\ tool' = [tool EXCEPT !.pc = "saving", !.images = <<edit.result>>,
                                   !.saveLog = Append(tool.saveLog, a)]
    /\ UNCHANGED <<built, server>>

\* mutant of saveRejected: generate_image skips the image and goes on
saveRejectedSkipsImage(t, error) ==
    IF t.name = "generate_image"
    THEN [t EXCEPT !.pc = "loop", !.i = t.i + 1]
    ELSE [t EXCEPT !.pc = "returned", !.response = catchResponse(t.name, error)]

\* the handler when the saveImageToFile call it awaits rejects: the catch
\* block answers and nothing more is saved
saveRejected(t, error) ==
    [t EXCEPT !.pc = "returned", !.response = catchResponse(t.name, error)]

\* the saveImageToFile call a handler awaits has settled: a rejection goes
\* to the catch block; a path is kept, and generate_image goes on with its
\* loop while edit_image builds its response
SaveSettles ==
    /\ tool.pc = "saving"
    /\ calls[1].pc \in {"done", "failed"}
    /\ IF calls[1].pc = "failed"
       THEN /\ tool' = saveRejected(tool, calls[1].error)
            /\ calls' = calls
       ELSE /\ tool' =
                 IF tool.name = "generate_image"
                 THEN [tool EXCEPT !.pc = "loop", !.i = tool.i + 1,
                          !.savedFiles = Append(tool.savedFiles, calls[1].result)]
                 ELSE [tool EXCEPT !.pc = "returned",
                          !.savedFiles = Append(tool.savedFiles, calls[1].result),
                          !.response = Response(FALSE, "Successfully edited", "",
                                                1, <<calls[1].result>>,
                                                getImageBaseDir(imageDirEnv))]
            /\ calls' = [calls EXCEPT ![1] = IdleCall]
    /\ UNCHANGED <<cwd, imageDirEnv, allowedImageDirs, dirs, files, edit,
                   built, server>>

(***************************************************************************)
(* Inputs of the tools.                                                    *)
(***************************************************************************)
\* a valid generate_image input and inputs that differ from it in one
\* property
GenerateInputs ==
    LET U == Undefined
        ok(prompt, aspectRatio, count) ==
            GenerateInput(prompt, U, aspectRatio, U, count, U, U)
    IN  { ok(Text(12), U, U),
          ok(Text(2000), Word("16:9"), Num(4)),
          ok(Text(1), Word("1:1"), Num(1)),
          GenerateInput(Text(12), Word("m"), U, Word("2K"), Num(2), Word("blurry"), Num(0)),
          ok(U, U, U),
          ok(Text(0), U, U),
          ok(Text(2001), U, U),
          ok(Num(7), U, U),
          ok(Text(12), Word("invalid"), U),
          ok(Text(12), U, Num(0)),
          ok(Text(12), U, Num(5)),
          ok(Text(12), U, NumAndHalf(1)),
          ok(Text(12), U, Word("2")),
          GenerateInput(Text(12), U, U, Word("8K"), U, U, U),
          GenerateInput(Text(12), U, U, U, U, U, Num(-1)),
          GenerateInput(Text(12), U, U, U, U, U, BigNum(99999, 99999)),
          GenerateInput(Text(12), U, U, U, U, U, BigNum(100000, 0)),
          GenerateInput(Text(12), Num(1), U, U, U, U, U),
          NotAnObject }

\* image arguments handed to edit_image
EditImages ==
    { <<"/", "home", "/", "user", "/", "a", ".", "png">>,
      <<"/", "etc", "/", "passwd">>,
      <<"Q", "Q", "=", "=">>,
      <<"https://", "home", "/", "x">> }

EditInputs ==
    LET U == Undefined
        img(v) == [typ |-> "string", value |-> v]
    IN  {EditInput(img(v), Text(9), U) : v \in EditImages}
        \cup { EditInput(img(<<"Q", "Q", "=", "=">>), Text(2000), Word("m")),
               EditInput(U, Text(9), U),
               EditInput(img(<<>>), Text(9), U),
               EditInput(img(<<"Q", "Q", "=", "=">>), U, U),
               EditInput(img(<<"Q", "Q", "=", "=">>), Text(0), U),
               EditInput(img(<<"Q", "Q", "=", "=">>), Text(2001), U),
               NotAnObject }

(***************************************************************************)
(* One operation on a freshly started server.                              *)
(***************************************************************************)
Slots == {1, 2}

AllowedChoices(wd, customDir) ==
    { <<P_user>>, <<P_home>>, getDefaultAllowedDirs(wd, customDir) }

Init ==
    /\ cwd \in CwdChoices
    /\ imageDirEnv \in EnvChoices
    /\ allowedImageDirs \in AllowedChoices(cwd, imageDirEnv)
    /\ dirs = InitDirs
    /\ files = InitFiles
    /\ calls = [s \in Slots |-> IdleCall]
    /\ edit = IdleEdit
    /\ tool = IdleTool
    /\ built = [imageDirEnv |-> imageDirEnv, cwd |-> cwd]
    /\ server = RunningServer

NoOtherOperation(s) ==
    /\ edit.pc = "idle"
    /\ \A t \in Slots \ {s} : calls[t].pc = "idle"

Save ==
    /\ calls[1].pc = "idle"
    /\ NoOtherOperation(1)
    /\ \E base64Data \in Payloads, prefix \in Prefixes, mimeType \in MimeTypes :
          SaveBegin(1, base64Data, prefix, mimeType)
    /\ UNCHANGED others

Mkdir ==
    /\ calls[1].pc = "mkdir"
    /\ \E fault \in BOOLEAN, r \in RandomSuffixes : SaveMkdir(1, fault, r)
    /\ UNCHANGED others

Write ==
    /\ calls[1].pc = "write"
    /\ \E fault \in BOOLEAN : SaveWrite(1, fault)
    /\ UNCHANGED others

Edit ==
    /\ edit.pc = "idle"
    /\ \A s \in Slots : calls[s].pc = "idle"
    /\ \E image \in ImageArgs, readFault \in BOOLEAN : EditStart(image, readFault)
    /\ UNCHANGED others

EditThrow ==
    /\ edit.pc = "request"
    /\ \E outcome \in {"apiError", "noImages", "downloadFailed"} : EditFail(outcome)
    /\ UNCHANGED others

EditReply ==
    /\ edit.pc = "request"
    /\ \E imageUrl \in ImageUrls, bytes \in DownloadBufs : EditFinish(imageUrl, bytes)
    /\ UNCHANGED others

Next == Save \/ Mkdir \/ Write \/ Edit \/ EditThrow \/ EditReply

Spec == Init /\ [][Next]_vars

(***************************************************************************)
(* Two saveImageToFile calls on a freshly started server, each made at any *)
(* moment: one after the other, or while the other one awaits fs.mkdir or  *)
(* fs.writeFile.  Both are given payloads and MIME types that pass the     *)
(* validations.                                                            *)
(***************************************************************************)
ConcPayloads ==
    { Str(0, <<"Q", "Q", "=", "=">>), Str(0, <<"/", "w", "=", "=">>), Str(13981012, <<>>) }

ConcPrefixes == { <<"edited">>, <<"generated_1">> }

ConcMimeTypes == {"image/png", "image/jpeg"}

InitConc ==
    /\ cwd = P_home
    /\ imageDirEnv \in EnvChoices
    /\ allowedImageDirs = getDefaultAllowedDirs(cwd, imageDirEnv)
    /\ dirs = InitDirs
    /\ files = InitFiles
    /\ calls = [s \in Slots |-> IdleCall]
    /\ edit = IdleEdit
    /\ tool = IdleTool
    /\ built = [imageDirEnv |-> imageDirEnv, cwd |-> cwd]
    /\ server = RunningServer

ConcSave(s) ==
    /\ calls[s].pc = "idle"
    /\ \E base64Data \in ConcPayloads, prefix \in ConcPrefixes, mimeType \in ConcMimeTypes :
          SaveBegin(s, base64Data, prefix, mimeType)
    /\ UNCHANGED others

ConcMkdir(s) ==
    /\ calls[s].pc = "mkdir"
    /\ \E fault \in BOOLEAN, r \in RandomSuffixes : SaveMkdir(s, fault, r)
    /\ UNCHANGED others

ConcWrite(s) ==
    /\ calls[s].pc = "write"
    /\ \E fault \in BOOLEAN : SaveWrite(s, fault)
    /\ UNCHANGED others

NextConc == \E s \in Slots : ConcSave(s) \/ ConcMkdir(s) \/ ConcWrite(s)

SpecConc == InitConc /\ [][NextConc]_vars

(***************************************************************************)
(* One tool request on a freshly started server.                           *)
(***************************************************************************)
InitTools ==
    /\ cwd \in CwdChoices
    /\ imageDirEnv \in EnvChoices
    /\ allowedImageDirs = getDefaultAllowedDirs(cwd, imageDirEnv)
    /\ dirs = InitDirs
    /\ files = InitFiles
    /\ calls = [s \in Slots |-> IdleCall]
    /\ edit = IdleEdit
    /\ tool = IdleTool
    /\ built = [imageDirEnv |-> imageDirEnv, cwd |-> cwd]
    /\ server = RunningServer

GenerateCall ==
    /\ tool.pc = "idle"
    /\ \E input \in GenerateInputs : GenerateHandler(input)

GenerateAnswer ==
    /\ tool.pc = "service" /\ tool.name = "generate_image"
    /\ \E answer \in ApiAnswers : GenerateSettles(answer)

EditCall ==
    /\ tool.pc = "idle"
    /\ \E input \in EditInputs, readFault \in BOOLEAN : EditHandler(input, readFault)

NextTools ==
    \/ GenerateCall \/ GenerateAnswer \/ GenerateLoop
    \/ EditCall \/ EditThrow \/ EditReply \/ EditCatch \/ EditSave
    \/ Mkdir \/ Write \/ SaveSettles

SpecTools == InitTools /\ [][NextTools]_vars

(***************************************************************************)
(* The process from its start: the checks of index.ts, main, then one tool *)
(* request to the running server, with the real service or the mock one.   *)
(***************************************************************************)
InitMain ==
    /\ cwd = P_home
    /\ imageDirEnv \in {<<>>, P_out}
    /\ allowedImageDirs = <<>>
    /\ dirs = InitDirs
    /\ files = InitFiles
    /\ calls = [s \in Slots |-> IdleCall]
    /\ edit = IdleEdit
    /\ tool = IdleTool
    /\ built = [imageDirEnv |-> <<>>, cwd |-> <<>>]
    /\ server \in {StartServer(build, apiKey, mock) :
                      build \in BOOLEAN, apiKey \in ApiKeys, mock \in BOOLEAN}

TestConnectionSettles ==
    /\ server.pc = "testing"
    /\ \E succeeded \in BOOLEAN : TestConnection(succeeded)

ConnectSettles ==
    /\ server.pc = "connecting"
    /\ \E ok \in BOOLEAN : Connect(ok)

NextMain ==
    \/ Start \/ MainBuild \/ TestConnectionSettles \/ Register \/ ConnectSettles
    \/ GenerateCall \/ GenerateAnswer \/ MockGenerateSettles \/ GenerateLoop
    \/ EditCall \/ EditThrow \/ EditReply \/ EditCatch \/ EditSave
    \/ Mkdir \/ Write \/ SaveSettles

SpecMain == InitMain /\ [][NextMain]_vars

(***************************************************************************)
(* Two requests to a server with the default allowed directories: a        *)
(* generate_image request, then an edit_image request whose image is a     *)
(* path the first one returned.                                            *)
(***************************************************************************)
\* values of SILICONFLOW_IMAGE_DIR: those of EnvChoices and the root
ChainEnvChoices == EnvChoices \cup {P_root}

ChainDownloads ==
    { Download(<<"https://", "cdn", "/", "img", ".", "png">>, TRUE, Buf(0, <<255, 224>>)),
      Download(<<"https://", "cdn", "/", "img", ".", "jpeg">>, TRUE, Buf(0, <<255>>)) }

ChainAnswers == {[ok |-> TRUE, images |-> l] : l \in SeqsUpTo(ChainDownloads, MaxImages)}

InitChain ==
    /\ cwd \in CwdChoices
    /\ imageDirEnv \in ChainEnvChoices
    /\ allowedImageDirs = getDefaultAllowedDirs(cwd, imageDirEnv)
    /\ dirs = InitDirs
    /\ files = InitFiles
    /\ calls = [s \in Slots |-> IdleCall]
    /\ edit = IdleEdit
    /\ tool = IdleTool
    /\ built = [imageDirEnv |-> imageDirEnv, cwd |-> cwd]
    /\ server = RunningServer

ChainGenerateCall ==
    /\ tool.pc = "idle"
    /\ GenerateHandler(GenerateInput(Text(12), Undefined, Undefined, Undefined,
                                     Num(2), Undefined, Undefined))

ChainGenerateAnswer ==
    /\ tool.pc = "service" /\ tool.name = "generate_image"
    /\ \E answer \in ChainAnswers : GenerateSettles(answer)

\* edit_image is called with a path the generate_image request listed
EditSavedFile ==
    /\ tool.pc = "returned" /\ tool.name = "generate_image"
    /\ ~tool.response.isError
    /\ \E k \in DOMAIN tool.response.paths, readFault \in BOOLEAN :
          EditHandler(EditInput(Word(tool.response.paths[k]), Text(9), Undefined),
                      readFault)

NextChain ==
    \/ ChainGenerateCall \/ ChainGenerateAnswer \/ GenerateLoop
    \/ Mkdir \/ Write \/ SaveSettles
    \/ EditSavedFile \/ EditThrow \/ EditReply \/ EditCatch \/ EditSave

SpecChain == InitChain /\ [][NextChain]_vars

(***************************************************************************)
(* A server whose environment changes after the service was built: code of *)
(* the process sets SILICONFLOW_IMAGE_DIR or calls process.chdir, then one *)
(* operation is made.                                                      *)
(***************************************************************************)
HostImages ==
    { <<"x">>,
      <<"user", "/", "a", ".", "png">>,
      <<"/", "home", "/", "x">>,
      <<"/", "home", "/", "user", "/", "out", "/", "a">>,
      <<"/", "etc", "/", "passwd">> }

InitHost ==
    /\ cwd \in CwdChoices
    /\ imageDirEnv \in EnvChoices
    /\ allowedImageDirs = getDefaultAllowedDirs(cwd, imageDirEnv)
    /\ dirs = InitDirs
    /\ files = InitFiles
    /\ calls = [s \in Slots |-> IdleCall]
    /\ edit = IdleEdit
    /\ tool = IdleTool
    /\ built = [imageDirEnv |-> imageDirEnv, cwd |-> cwd]
    /\ server = RunningServer

\* process.env.SILICONFLOW_IMAGE_DIR = value (<<>>: the variable is deleted)
SetEnv ==
    /\ edit.pc = "idle"
    /\ \A s \in Slots : calls[s].pc = "idle"
    /\ \E value \in EnvChoices : imageDirEnv' = value
    /\ UNCHANGED <<cwd, allowedImageDirs, dirs, files, calls, edit, tool, built,
                   server>>

\* process.chdir(directory)
Chdir ==
    /\ edit.pc = "idle"
    /\ \A s \in Slots : calls[s].pc = "idle"
    /\ \E directory \in dirs : cwd' = directory
    /\ UNCHANGED <<imageDirEnv, allowedImageDirs, dirs, files, calls, edit, tool,
                   built, server>>

HostSave ==
    /\ calls[1].pc = "idle"
    /\ NoOtherOperation(1)
    /\ \E base64Data \in ConcPayloads, prefix \in ConcPrefixes, mimeType \in ConcMimeTypes :
          SaveBegin(1, base64Data, prefix, mimeType)
    /\ UNCHANGED others

HostEdit ==
    /\ edit.pc = "idle"
    /\ \A s \in Slots : calls[s].pc = "idle"
    /\ \E image \in HostImages, readFault \in BOOLEAN : EditStart(image, readFault)
    /\ UNCHANGED others

NextHost == SetEnv \/ Chdir \/ HostSave \/ Mkdir \/ Write \/ HostEdit

SpecHost == InitHost /\ [][NextHost]_vars

(***************************************************************************)
(* What the claims speak of, stated without the operators of the code.     *)
(***************************************************************************)
TenMiB == 10 * 1024 * 1024

ValidationErrors ==
    {"InvalidInput", "InvalidFormat", "PayloadTooLarge", "UnsupportedMimeType"}

AllowList == {"image/png", "image/jpeg", "image/jpg", "image/webp"}

NonEmptyString(d) == d.typ = "string" /\ d.fill + Len(d.body) > 0

\* d matches ^[A-Za-z0-9+/]*={0,2}$
WellFormed(d) ==
    \E k \in 0..2 :
        /\ k <= Len(d.body)
        /\ \A i \in 1..(Len(d.body) - k) : d.body[i] \in B64Alphabet
        /\ \A i \in (Len(d.body) - k + 1)..Len(d.body) : d.body[i] = "="

\* ceil(len * 3 / 4) <= 10 MiB
EstimateFits(d) == (d.fill + Len(d.body)) * 3 <= 4 * TenMiB

\* the number of bytes d decodes to: three for every four base64 digits
DecodedLength(d) ==
    (3 * (d.fill + Cardinality({i \in DOMAIN d.body : d.body[i] # "="}))) \div 4

\* the segments of the absolute, normalized form of p, read from the last
\* segment to the first: a ".." cancels the next name met
RECURSIVE CanonBack(_, _, _)
CanonBack(segs, i, skip) ==
    IF i = 0 THEN <<>>
    ELSE IF segs[i] = <<>> \/ segs[i] = Dot THEN CanonBack(segs, i - 1, skip)
    ELSE IF segs[i] = DotDot THEN CanonBack(segs, i - 1, skip + 1)
    ELSE IF skip > 0 THEN CanonBack(segs, i - 1, skip - 1)
    ELSE Append(CanonBack(segs, i - 1, 0), segs[i])

CanonSegs(p, wd) ==
    LET full == IF Len(p) > 0 /\ p[1] = "/" THEN p ELSE wd \o <<"/">> \o p
        segs == Split(full)
    IN  CanonBack(segs, Len(segs), 0)

\* the absolute, normalized form of p as a string
Canon(p, wd) == <<"/">> \o JoinSegs(CanonSegs(p, wd))

\* location p is directory d or lies below it
Within(p, d, wd) == IsPrefix(CanonSegs(d, wd), CanonSegs(p, wd))

IsSpecialImage(image) ==
    Len(image) > 0 /\ image[1] \in {"data:image/", "http://", "https://"}

Started(c) == c.pc # "idle"

(***************************************************************************)
(* C1: saveImageToFile reports the error of the earliest violated check in *)
(* the order non-empty string, base64 format, size estimate, MIME          *)
(* allow-list; an input that passes the four fails with none of them.      *)
(***************************************************************************)
C1_FirstViolatedCheckWins ==
    \A s \in Slots :
        LET c == calls[s]
            d == c.base64Data
        IN  Started(c) =>
              /\ ~NonEmptyString(d) => c.pc = "failed" /\ c.error = "InvalidInput"
              /\ NonEmptyString(d) /\ ~WellFormed(d)
                   => c.pc = "failed" /\ c.error = "InvalidFormat"
              /\ NonEmptyString(d) /\ WellFormed(d) /\ ~EstimateFits(d)
                   => c.pc = "failed" /\ c.error = "PayloadTooLarge"
              /\ NonEmptyString(d) /\ WellFormed(d) /\ EstimateFits(d)
                 /\ c.mimeType \notin AllowList
                   => c.pc = "failed" /\ c.error = "UnsupportedMimeType"
              /\ NonEmptyString(d) /\ WellFormed(d) /\ EstimateFits(d)
                 /\ c.mimeType \in AllowList
                   => c.error \notin ValidationErrors

\* a payload that is not base64, with a MIME type that is not allowed, was
\* rejected for its format
C1_Witness ==
    \E s \in Slots :
        /\ calls[s].base64Data = Str(0, <<"!">>)
        /\ calls[s].mimeType = "image/gif"
        /\ calls[s].error = "InvalidFormat"

(***************************************************************************)
(* C2: the file a successful saveImageToFile call wrote lies inside the    *)
(* output base directory, and no call creates a file outside of it.        *)
(* (Stated as claimed; the code breaks it.)                                *)
(***************************************************************************)
C2_SavedInsideBaseDir ==
    \A s \in Slots :
        LET c == calls[s] IN
        /\ c.pc = "done" => Within(c.result, c.tempDir, cwd)
        /\ Started(c) =>
             \A f \in DOMAIN files \ DOMAIN InitFiles :
                 Within(f, getImageBaseDir(imageDirEnv), cwd)

(***************************************************************************)
(* C3: the guard approves a path exactly when its absolute, normalized     *)
(* form equals that of an allowed directory or starts with it followed by  *)
(* the separator; with only /home/user allowed, /home/user and             *)
(* /home/user/a are approved, /home/userx/secret and                       *)
(* /home/user/../etc/passwd are not.                                       *)
(***************************************************************************)
C3_GuardIsBoundedPrefix ==
    edit.guard # "notcalled" =>
      /\ edit.guard = "allowed" <=>
           \E i \in DOMAIN allowedImageDirs :
               LET d == Canon(allowedImageDirs[i], cwd)
                   p == Canon(edit.image, cwd)
               IN  p = d \/ IsPrefix(d \o <<"/">>, p)
      /\ allowedImageDirs = << <<"/", "home", "/", "user">> >> =>
           /\ edit.image \in { <<"/", "home", "/", "user">>,
                               <<"/", "home", "/", "user", "/", "a">> }
                => edit.guard = "allowed"
           /\ edit.image \in
                { <<"/", "home", "/", "user", "x", "/", "secret">>,
                  <<"/", "home", "/", "user", "/", ".", ".", "/", "etc", "/", "passwd">> }
                => edit.guard = "denied"

\* the sibling /home/userx/secret was denied with only /home/user allowed
C3_Witness ==
    /\ allowedImageDirs = <<P_user>>
    /\ edit.image = <<"/", "home", "/", "user", "x", "/", "secret">>
    /\ edit.guard = "denied"

(***************************************************************************)
(* C4: editImage never reads a file that, once symbolic links are          *)
(* followed, lies outside every allowed directory.  (Stated as claimed;    *)
(* the code breaks it.)                                                    *)
(***************************************************************************)
C4_NoReadThroughSymlink ==
    edit.readFrom # <<>> =>
        \E i \in DOMAIN allowedImageDirs :
            Within(edit.readFrom, realpath(allowedImageDirs[i], cwd), cwd)

(***************************************************************************)
(* C5: editImage reads a local file only for an argument that is neither a *)
(* data URL nor an http(s) URL and that the guard approved; when the guard *)
(* denies it or the read fails, no file is used, nothing is thrown and the *)
(* request carries "data:image/png;base64," followed by the argument.      *)
(***************************************************************************)
C5_ReadOnlyWhenApproved ==
    edit.pc = "request" =>
      LET approved == \E i \in DOMAIN allowedImageDirs :
                          LET d == Canon(allowedImageDirs[i], cwd)
                              p == Canon(edit.image, cwd)
                          IN  p = d \/ IsPrefix(d \o <<"/">>, p)
          fallback == [head |-> <<"data:", "image/png", ";base64,">>,
                       text |-> [typ |-> "string", fill |-> 0, body |-> edit.image]]
      IN  /\ edit.readFrom # <<>> => ~IsSpecialImage(edit.image) /\ approved
          /\ ~IsSpecialImage(edit.image) /\ (~approved \/ edit.readFrom = <<>>)
               => /\ edit.readFrom = <<>>
                  /\ edit.imageContent = fallback
                  /\ edit.error = ""

\* /etc/passwd was denied and sent as if it were raw base64
C5_Witness ==
    /\ edit.pc = "request"
    /\ edit.image = <<"/", "etc", "/", "passwd">>
    /\ edit.guard = "denied"
    /\ edit.imageContent.head = <<"data:", "image/png", ";base64,">>

(***************************************************************************)
(* C6, as claimed: a MIME type outside the allow-list makes                *)
(* saveImageToFile fail with UnsupportedMimeType whatever the payload.     *)
(***************************************************************************)
C6_UnsupportedWhateverPayload ==
    \A s \in Slots :
        Started(calls[s]) /\ calls[s].mimeType \notin AllowList
            => calls[s].pc = "failed" /\ calls[s].error = "UnsupportedMimeType"

(***************************************************************************)
(* C6, amended: a MIME type outside the allow-list makes saveImageToFile   *)
(* fail; the error is UnsupportedMimeType exactly when the payload is a    *)
(* non-empty string of base64 format whose size estimate fits, and the     *)
(* payload's own error otherwise.                                          *)
(***************************************************************************)
C6_UnsupportedWhenPayloadPasses ==
    \A s \in Slots :
        LET c == calls[s]
            d == c.base64Data
        IN  Started(c) /\ c.mimeType \notin AllowList =>
              /\ c.pc = "failed"
              /\ c.error \in ValidationErrors
              /\ c.error = "UnsupportedMimeType"
                   <=> NonEmptyString(d) /\ WellFormed(d) /\ EstimateFits(d)

\* a well-formed payload declared image/gif was rejected for its MIME type
C6_Witness ==
    \E s \in Slots :
        /\ calls[s].base64Data = Str(0, <<"Q", "Q">>)
        /\ calls[s].mimeType = "image/gif"
        /\ calls[s].pc = "failed"
        /\ calls[s].error = "UnsupportedMimeType"

(***************************************************************************)
(* C7: a payload of base64 format that decodes to more than 10 MiB makes   *)
(* saveImageToFile fail with PayloadTooLarge before anything is decoded,   *)
(* and neither a directory nor a file is created.                          *)
(***************************************************************************)
C7_OversizedRejectedBeforeDecode ==
    \A s \in Slots :
        LET c == calls[s]
            d == c.base64Data
        IN  Started(c) /\ NonEmptyString(d) /\ WellFormed(d)
            /\ DecodedLength(d) > TenMiB =>
              /\ c.pc = "failed"
              /\ c.error = "PayloadTooLarge"
              /\ ~c.decoded
              /\ dirs = InitDirs
              /\ files = InitFiles

\* a padded payload of 13981017 characters was rejected as too large
C7_Witness ==
    \E s \in Slots :
        /\ calls[s].base64Data = Str(13981016, <<"=">>)
        /\ calls[s].error = "PayloadTooLarge"
        /\ ~calls[s].decoded

(***************************************************************************)
(* C10: a saveImageToFile call that fails a validation fails before it     *)
(* touched the file system: no directory and no file is created by it, and *)
(* once failed the call does nothing more (no retry).                      *)
(***************************************************************************)
C10_FailedValidationLeavesFsUnchanged ==
    [][ \A s \in Slots :
          /\ calls[s].pc # "failed" /\ calls'[s].pc = "failed"
             /\ calls'[s].error \in ValidationErrors
               => /\ calls[s].pc = "idle"
                  /\ dirs' = dirs
                  /\ files' = files
          /\ calls[s].pc = "failed" => calls'[s] = calls[s]
      ]_vars

\* a call failed on its MIME type and the file system is as it was
C10_Witness ==
    \E s \in Slots :
        /\ calls[s].pc = "failed"
        /\ calls[s].error = "UnsupportedMimeType"
        /\ calls[s].prefix = <<"generated_1">>
        /\ dirs = InitDirs
        /\ files = InitFiles

\* the content of the file a path designates
FileAt(p) == files[Canon(p, cwd)]

\* call s was made after call t had returned
MadeAfter(s, t) == t \in calls[s].after

\* the two calls were in progress at the same time
Overlapping(s, t) == ~MadeAfter(s, t) /\ ~MadeAfter(t, s)

(***************************************************************************)
(* C8, as claimed: two successful calls with the same prefix and MIME      *)
(* type, made one after the other, return distinct paths and the second    *)
(* does not overwrite the file of the first.                               *)
(***************************************************************************)
C8_SuccessiveSavesDistinct ==
    \A s, t \in Slots :
        /\ s # t /\ MadeAfter(s, t)
        /\ calls[s].pc = "done" /\ calls[t].pc = "done"
        /\ calls[s].prefix = calls[t].prefix /\ calls[s].mimeType = calls[t].mimeType
        => /\ calls[s].result # calls[t].result
           /\ FileAt(calls[t].result) = calls[t].buffer

(***************************************************************************)
(* C8, amended: two successful calls with the same prefix and MIME type,   *)
(* made one after the other, return distinct paths exactly when their      *)
(* random suffixes differ, and then the second leaves the file of the      *)
(* first as it was; with equal suffixes the second replaces that file.     *)
(***************************************************************************)
C8_DistinctWhenSuffixesDiffer ==
    \A s, t \in Slots :
        /\ s # t /\ MadeAfter(s, t)
        /\ calls[s].pc = "done" /\ calls[t].pc = "done"
        /\ calls[s].prefix = calls[t].prefix /\ calls[s].mimeType = calls[t].mimeType
        => /\ calls[s].result = calls[t].result
                <=> calls[s].randomSuffix = calls[t].randomSuffix
           /\ calls[s].randomSuffix # calls[t].randomSuffix
                => FileAt(calls[t].result) = calls[t].buffer
           /\ FileAt(calls[s].result) = calls[s].buffer

\* two calls with the same prefix and MIME type, one after the other, drew
\* different suffixes and both returned
C8_Witness ==
    /\ MadeAfter(2, 1)
    /\ calls[1].pc = "done" /\ calls[2].pc = "done"
    /\ calls[1].prefix = calls[2].prefix /\ calls[1].mimeType = calls[2].mimeType
    /\ calls[1].randomSuffix # calls[2].randomSuffix
    /\ calls[1].buffer # calls[2].buffer

(***************************************************************************)
(* C9, as claimed: two calls that run concurrently both succeed and each   *)
(* returned path holds the bytes of the payload of the call that returned  *)
(* it.                                                                     *)
(***************************************************************************)
C9_ConcurrentSavesKeepTheirBytes ==
    \A s, t \in Slots :
        s # t /\ Overlapping(s, t) /\ calls[s].pc = "done" /\ calls[t].pc = "done"
        => /\ FileAt(calls[s].result) = calls[s].buffer
           /\ FileAt(calls[t].result) = calls[t].buffer

(***************************************************************************)
(* C9, amended: of two calls that run concurrently, one fails only when    *)
(* the host refuses its fs.mkdir or fs.writeFile, never because the other  *)
(* call created the directory; when both have returned, each returned path *)
(* holds the bytes of its call's payload provided the two file names       *)
(* (prefix, random suffix, extension) differ.                              *)
(***************************************************************************)
C9_ConcurrentSavesUnlessSameName ==
    \A s, t \in Slots :
        s # t /\ Overlapping(s, t) =>
          /\ calls[s].pc = "failed" => calls[s].hostFault
          /\ calls[s].pc = "done" /\ calls[t].pc = "done"
             /\ calls[s].result # calls[t].result
               => /\ FileAt(calls[s].result) = calls[s].buffer
                  /\ FileAt(calls[t].result) = calls[t].buffer

\* both calls awaited fs.writeFile at the same time, then both returned,
\* with different file names and different bytes
C9_Witness ==
    /\ Overlapping(1, 2)
    /\ calls[1].pc = "done" /\ calls[2].pc = "done"
    /\ calls[1].result # calls[2].result
    /\ calls[1].buffer # calls[2].buffer
    /\ calls[1].prefix = calls[2].prefix

(***************************************************************************)
(* C11: every string that does not match ^[A-Za-z0-9+/]*={0,2}$ (a data    *)
(* URL, a string holding "-", ":" or white space, "=" in the middle, three *)
(* "=" at the end) makes saveImageToFile fail with InvalidFormat, whatever *)
(* the prefix and the MIME type.                                           *)
(***************************************************************************)
C11_NotBase64IsInvalidFormat ==
    \A s \in Slots :
        LET c == calls[s] IN
        Started(c) /\ c.base64Data.typ = "string" /\ ~WellFormed(c.base64Data)
            => /\ c.pc = "failed"
               /\ c.error = "InvalidFormat"
               /\ ~c.decoded

\* a string ending in three "=" was rejected for its format, with a MIME
\* type that is not allowed and a prefix that leaves the directory
C11_Witness ==
    \E s \in Slots :
        /\ calls[s].base64Data = Str(0, <<"Q", "=", "=", "=">>)
        /\ calls[s].mimeType = "image/gif"
        /\ calls[s].prefix = <<".", ".", "/", "img">>
        /\ calls[s].error = "InvalidFormat"

\* the value of a run of base64 digits read as a number in base 64
RECURSIVE DigitsValue(_)
DigitsValue(x) ==
    IF Len(x) = 0 THEN 0
    ELSE DigitsValue(SubSeq(x, 1, Len(x) - 1)) * 64 + B64Index(x[Len(x)])

RECURSIVE Power(_, _)
Power(b, e) == IF e = 0 THEN 1 ELSE b * Power(b, e - 1)

\* the bytes a well-formed payload stands for: its digits are one number of
\* 6 bits per digit, of which the leading whole bytes are kept
DecodedBytes(d) ==
    LET digits == SelectSeq(d.body, LAMBDA c : c # "=")
        n      == (6 * Len(digits)) \div 8
        v      == DigitsValue(digits) \div Power(2, 6 * Len(digits) - 8 * n)
    IN  [zeros |-> (d.fill \div 4) * 3,
         bytes |-> [k \in 1..n |-> (v \div Power(256, n - k)) % 256]]

(***************************************************************************)
(* C12: after a successful saveImageToFile(b, prefix, mimeType) the file   *)
(* at the returned path holds exactly the bytes b decodes to.              *)
(***************************************************************************)
C12_FileHoldsDecodedPayload ==
    \A s \in Slots :
        calls[s].pc = "done"
            => /\ Canon(calls[s].result, cwd) \in DOMAIN files
               /\ FileAt(calls[s].result) = DecodedBytes(calls[s].base64Data)

\* "/w==" was saved and the file holds the single byte 255
C12_Witness ==
    \E s \in Slots :
        /\ calls[s].pc = "done"
        /\ calls[s].base64Data = Str(0, <<"/", "w", "=", "=">>)
        /\ FileAt(calls[s].result) = [zeros |-> 0, bytes |-> <<255>>]

BaseDirOf(env) ==
    IF env = <<>> THEN <<"/", "tmp", "/", "siliconflow-images">> ELSE env

\* the guard approves p in a process whose working directory is wd
ApprovedAt(p, wd) ==
    \E i \in DOMAIN allowedImageDirs :
        LET d == Canon(allowedImageDirs[i], wd)
        IN  Canon(p, wd) = d \/ IsPrefix(d \o <<"/">>, Canon(p, wd))

(***************************************************************************)
(* C14: the output directory and the set of paths the guard approves are   *)
(* those of the moment the service was built, whatever happens later to    *)
(* SILICONFLOW_IMAGE_DIR and to the working directory.  (Stated as         *)
(* claimed; the code breaks it.)                                           *)
(***************************************************************************)
C14_ConfigurationFixedWhenBuilt ==
    /\ \A s \in Slots :
          calls[s].pc \in {"mkdir", "write", "done"}
            => Canon(calls[s].tempDir, cwd) = Canon(BaseDirOf(built.imageDirEnv), built.cwd)
    /\ edit.pc = "request" /\ edit.guard # "notcalled"
         => (edit.guard = "allowed" <=> ApprovedAt(edit.image, built.cwd))

(***************************************************************************)
(* C15: the path a successful saveImageToFile call returns is absolute,    *)
(* whatever the configured output directory.  (Stated as claimed; the code *)
(* breaks it.)                                                             *)
(***************************************************************************)
C15_ReturnsAbsolutePath ==
    \A s \in Slots :
        calls[s].pc = "done"
            => Len(calls[s].result) > 0 /\ calls[s].result[1] = "/"

\* the extension that goes with a MIME type of the allow-list
ExtFor(mimeType) ==
    CASE mimeType = "image/png"  -> "png"
      [] mimeType = "image/jpeg" -> "jpg"
      [] mimeType = "image/jpg"  -> "jpg"
      [] mimeType = "image/webp" -> "webp"
      [] OTHER -> "none"

\* the last "/"-separated segment of a string
LastSegment(p) == LET segs == Split(p) IN segs[Len(segs)]

BadPrompt(x) == x.typ # "string" \/ x.length = 0 \/ x.length > 2000

\* the failures of a generate_image input the claim lists
BadGenerateInput(input) ==
    \/ ~input.isObject
    \/ BadPrompt(input.prompt)
    \/ /\ input.aspectRatio.typ # "undefined"
       /\ \/ input.aspectRatio.typ # "string"
          \/ input.aspectRatio.value \notin
               {"1:1", "2:3", "3:2", "3:4", "4:3", "4:5", "5:4", "9:16", "16:9", "21:9"}
    \/ /\ input.count.typ # "undefined"
       /\ \/ input.count.typ # "number"
          \/ ~input.count.isInt
          \/ input.count.e5 # 0
          \/ input.count.value \notin 1..4

\* the failures of an edit_image input the claim lists
BadEditInput(input) ==
    \/ ~input.isObject
    \/ input.image.typ # "string"
    \/ input.image.value = <<>>
    \/ BadPrompt(input.prompt)

\* the input of the request does not pass the schema of its tool
FailsSchema ==
    \/ tool.name = "generate_image"
       /\ (BadGenerateInput(tool.input) \/ ~GenerateImageInputSchema(tool.input))
    \/ tool.name = "edit_image"
       /\ (BadEditInput(tool.input) \/ ~EditImageInputSchema(tool.input))

(***************************************************************************)
(* C17: for every input that fails the schema of its tool (prompt missing, *)
(* empty or longer than 2000 characters, aspect ratio outside the enum,    *)
(* count outside 1..4, image missing for edit_image) the handler returns a *)
(* response with isError = true whose text starts with "Invalid input",    *)
(* and neither calls the service nor saves a file.                         *)
(***************************************************************************)
C17_InvalidInputIsRejectedFirst ==
    tool.pc # "idle" /\ FailsSchema =>
      /\ tool.pc = "returned"
      /\ tool.response.isError
      /\ tool.response.text = "Invalid input"
      /\ tool.serviceCalls = 0
      /\ tool.saveLog = <<>>
      /\ edit.pc = "idle"
      /\ \A s \in Slots : calls[s].pc = "idle"
      /\ dirs = InitDirs
      /\ files = InitFiles

\* generate_image was asked for 5 images and answered "Invalid input"
C17_Witness ==
    /\ tool.name = "generate_image"
    /\ tool.input.isObject
    /\ tool.input.count.typ = "number" /\ tool.input.count.value = 5
    /\ tool.pc = "returned"
    /\ tool.response.isError
    /\ tool.response.text = "Invalid input"

\* the file a listed path designates holds the bytes of the image
SavedAs(path, image) ==
    /\ Canon(path, cwd) \in DOMAIN files
    /\ files[Canon(path, cwd)] = DecodedBytes(image.data)

(***************************************************************************)
(* C18: the handlers never throw, they answer: when the service call       *)
(* fails, when the service returns no image, or when saveImageToFile fails *)
(* (validation or file system), the response has isError = true and a      *)
(* text that says so; a response without isError is returned only if every *)
(* image of the request was saved.                                         *)
(***************************************************************************)
C18_FailuresAreAnswered ==
    tool.pc = "returned" =>
      /\ tool.response.text # ""
      /\ tool.name = "edit_image" /\ edit.pc = "failed"
           => /\ tool.response.isError
              /\ tool.response.text = "Image editing failed"
              /\ tool.response.detail = edit.error
      /\ tool.name = "generate_image" /\ tool.serviceCalls = 1 /\ tool.images = <<>>
           => /\ tool.response.isError
              /\ tool.response.text \in {"Image generation failed",
                                         "No images were generated"}
      /\ calls[1].pc = "failed"
           => /\ tool.response.isError
              /\ tool.response.text \in {"Image generation failed",
                                         "Image editing failed"}
              /\ tool.response.detail = calls[1].error
      /\ ~tool.response.isError
           => /\ Len(tool.images) >= 1
              /\ Len(tool.response.paths) = Len(tool.images)
              /\ \A k \in DOMAIN tool.images :
                     SavedAs(tool.response.paths[k], tool.images[k])

\* generate_image saved its first image, the file system refused the
\* second one, and the response is an error
C18_Witness ==
    /\ tool.pc = "returned"
    /\ tool.name = "generate_image"
    /\ Len(tool.savedFiles) = 1
    /\ calls[1].pc = "failed" /\ calls[1].error = "FilesystemError"
    /\ tool.response.isError
    /\ tool.response.text = "Image generation failed"

\* "generated_" followed by the number k
Numbered(k) == << <<"generated_1", "generated_2", "generated_3", "generated_4">>[k] >>

(***************************************************************************)
(* C19: a successful generate_image request that got n images from the     *)
(* service has called saveImageToFile exactly n times, once per image in   *)
(* the order returned, the i-th call with the data and MIME type of the    *)
(* i-th image and the prefix "generated_i" (from 1); its response reports  *)
(* n images and lists the n returned paths in that order.  A successful    *)
(* edit_image request has called saveImageToFile exactly once, with the    *)
(* prefix "edited".                                                        *)
(***************************************************************************)
C19_OneSavePerImageInOrder ==
    /\ tool.name = "generate_image" => Len(tool.saveLog) <= Len(tool.images)
    /\ tool.name = "edit_image" => Len(tool.saveLog) <= 1
    /\ tool.pc = "returned" /\ ~tool.response.isError =>
         LET n == Len(tool.images) IN
         /\ n >= 1
         /\ Len(tool.saveLog) = n
         /\ tool.response.count = n
         /\ Len(tool.response.paths) = n
         /\ \A k \in 1..n :
               /\ tool.saveLog[k].base64Data = tool.images[k].data
               /\ tool.saveLog[k].mimeType = tool.images[k].mimeType
               /\ tool.saveLog[k].prefix =
                    IF tool.name = "generate_image" THEN Numbered(k) ELSE <<"edited">>
               /\ \E r \in Range(HexWords) :
                     tool.response.paths[k] =
                        BaseDirOf(imageDirEnv) \o <<"/">> \o tool.saveLog[k].prefix
                        \o <<"_", r, ".", ExtFor(tool.images[k].mimeType)>>
         /\ tool.name = "edit_image" => n = 1 /\ tool.images[1] = edit.result

\* generate_image got a PNG then a JPEG and saved both
C19_Witness ==
    /\ tool.pc = "returned"
    /\ tool.name = "generate_image"
    /\ ~tool.response.isError
    /\ Len(tool.images) = 2
    /\ tool.images[1].mimeType = "image/png"
    /\ tool.images[2].mimeType = "image/jpeg"
    /\ Last(tool.response.paths[2]) = "jpg"

(***************************************************************************)
(* C20: within one saveImageToFile call the output directory is created    *)
(* only after the payload was decoded and its decoded length checked (the  *)
(* order being: validations, decode, size check, directory, file name,     *)
(* write).  (Stated as claimed; the code breaks it.)                       *)
(***************************************************************************)
C20_DirectoryCreatedAfterDecode ==
    [][ \A s \in Slots :
          /\ calls[s].pc = "mkdir" /\ calls'[s].pc # "mkdir" => calls[s].decoded
          /\ dirs' # dirs /\ calls'[s] # calls[s] => calls[s].decoded
      ]_vars

(***************************************************************************)
(* C21: a payload that passed the size estimate never decodes to more than *)
(* the estimate ceil(len * 3 / 4), hence never to more than 10 MiB: the    *)
(* check made on the decoded buffer passes whenever the estimate passed,   *)
(* and no saveImageToFile call fails with PayloadTooLarge once it has      *)
(* decoded its payload or created the output directory.                    *)
(***************************************************************************)
C21_DecodedNeverExceedsEstimate ==
    \A s \in Slots :
        LET c == calls[s]
            d == c.base64Data
        IN  /\ c.decoded =>
                 /\ 4 * BufLen(c.buffer) <= 3 * (d.fill + Len(d.body)) + 3
                 /\ BufLen(c.buffer) <= TenMiB
                 /\ c.error # "PayloadTooLarge"
            /\ c.error = "PayloadTooLarge" =>
                 /\ ~c.decoded
                 /\ dirs = InitDirs
                 /\ files = InitFiles

\* the longest payload the estimate lets through (13981013 characters, an
\* estimate of exactly 10 MiB) was decoded and saved
C21_Witness ==
    \E s \in Slots :
        /\ calls[s].base64Data = Str(13981012, <<"Q">>)
        /\ calls[s].decoded
        /\ calls[s].pc = "done"
        /\ BufLen(calls[s].buffer) = 10485759

(***************************************************************************)
(* C22: the 10 MiB ceiling bounds the decoded length: a correctly padded   *)
(* payload of an allowed MIME type that decodes to at most 10485760 bytes, *)
(* a payload of exactly 10485760 bytes included, is not rejected as too    *)
(* large.  (Stated as claimed; the code breaks it.)                        *)
(***************************************************************************)
C22_TenMiBPayloadIsSaved ==
    \A s \in Slots :
        LET c == calls[s]
            d == c.base64Data
        IN  Started(c) /\ NonEmptyString(d) /\ WellFormed(d)
            /\ (d.fill + Len(d.body)) % 4 = 0
            /\ DecodedLength(d) <= TenMiB
            /\ c.mimeType \in AllowList
              => c.error # "PayloadTooLarge"

\* the extension of the path of a URL: what follows the last "." of the part
\* before the query string
UrlPathExtension(u) ==
    LET q == IF \E i \in DOMAIN u : u[i] = "?"
             THEN (CHOOSE i \in DOMAIN u : u[i] = "?" /\ \A j \in 1..(i - 1) : u[j] # "?") - 1
             ELSE Len(u)
    IN  IF q >= 2 /\ u[q - 1] = "." THEN u[q] ELSE ""

(***************************************************************************)
(* C23: the MIME type of a downloaded image is a guess made from the       *)
(* extension of its URL (PNG when there is none), and a guess that is      *)
(* wrong for the image (the URL of a WebP image, a query string that names *)
(* another extension) is rejected by the allow-list when the image is      *)
(* saved, not saved under the guessed type.  (Stated as claimed; the code  *)
(* breaks it.)                                                             *)
(***************************************************************************)
C23_WrongGuessIsRejected ==
    tool.name = "edit_image" /\ tool.pc = "returned" /\ edit.pc = "done"
    /\ UrlPathExtension(edit.imageUrl) = "webp" =>
        /\ tool.response.isError
        /\ tool.savedFiles = <<>>
        /\ files = InitFiles

\* an image as the service returns it: PNG or JPEG, data of base64 format
ServiceImage(r) ==
    /\ r.mimeType \in {"image/png", "image/jpeg"}
    /\ r.data.typ = "string"
    /\ WellFormed(r.data)

(***************************************************************************)
(* C24: every image generateImage and editImage return has the MIME type   *)
(* image/png or image/jpeg and data of base64 format, so a save made by a  *)
(* tool handler fails only with PayloadTooLarge or a file-system error, or *)
(* with InvalidInput when the download was empty: never with InvalidFormat *)
(* or UnsupportedMimeType.                                                 *)
(***************************************************************************)
C24_ServiceImagesPassValidation ==
    /\ edit.pc = "done" => ServiceImage(edit.result)
    /\ \A k \in DOMAIN tool.images : ServiceImage(tool.images[k])
    /\ tool.name # "" /\ calls[1].pc = "failed" =>
         \/ calls[1].error \in {"PayloadTooLarge", "FilesystemError"}
         \/ calls[1].error = "InvalidInput"
            /\ calls[1].base64Data.fill + Len(calls[1].base64Data.body) = 0

\* generate_image downloaded two bytes that encode to "/+A=" and saved them
C24_Witness ==
    /\ tool.name = "generate_image"
    /\ tool.pc = "returned"
    /\ ~tool.response.isError
    /\ tool.images[1].data = Str(0, <<"/", "+", "A", "=">>)
    /\ \E p \in DOMAIN files : p \notin DOMAIN InitFiles /\ files[p] = Buf(0, <<255, 224>>)

(***************************************************************************)
(* C25: in mock mode (SILICONFLOW_MOCK "true", no API key) the server      *)
(* starts without a network call, and a generate_image or edit_image       *)
(* request whose input passes the schema succeeds: the image of the mock   *)
(* service is saved and the response, without isError, lists the path of   *)
(* the file.  (Stated as claimed; the code breaks it.)                     *)
(***************************************************************************)
C25_MockRequestSucceeds ==
    server.mock /\ server.apiKey = "unset" =>
      /\ server.networkCalls = 0
      /\ tool.pc = "returned" /\ ~FailsSchema =>
           /\ ~tool.response.isError
           /\ Len(tool.response.paths) = 1
           /\ Canon(tool.response.paths[1], cwd) \in DOMAIN files

C27_FailedSaveStopsTheRequest ==
    [][ /\ tool.name = "generate_image" /\ tool.pc = "saving"
           /\ calls[1].pc = "failed" /\ Len(tool.savedFiles) >= 1
             => /\ tool'.pc = "returned"
                /\ tool'.response.isError
                /\ tool'.response.paths = <<>>
                /\ tool'.saveLog = tool.saveLog
                /\ tool'.savedFiles = tool.savedFiles
                /\ files' = files /\ dirs' = dirs
                /\ \A k \in DOMAIN tool.savedFiles :
                      SavedAs(tool.savedFiles[k], tool.images[k])
        /\ tool.pc = "returned" => UNCHANGED <<tool, calls, files, dirs>>
      ]_vars

\* the first image was saved, the second one was rejected as too large: the
\* response is an error and the first file is on disk
C27_Witness ==
    /\ tool.name = "generate_image" /\ tool.pc = "returned"
    /\ Len(tool.images) = 2 /\ Len(tool.saveLog) = 2
    /\ Len(tool.savedFiles) = 1
    /\ calls[1].pc = "failed" /\ calls[1].error = "PayloadTooLarge"
    /\ tool.response.isError /\ tool.response.paths = <<>>
    /\ SavedAs(tool.savedFiles[1], tool.images[1])

(***************************************************************************)
(* C28: generateImage is all or nothing: when the API call fails, when it  *)
(* returns no image, or when the download of any one image fails, it       *)
(* throws and returns no image, and the generate_image handler answers     *)
(* with an error without having saved a file.                              *)
(***************************************************************************)
C28_GenerateImageAllOrNothing ==
    tool.name = "generate_image" /\ tool.serviceCalls = 1 /\ tool.pc # "service"
    /\ (\/ ~tool.answered.ok
        \/ tool.answered.downloads = <<>>
        \/ \E k \in DOMAIN tool.answered.downloads : ~tool.answered.downloads[k]) =>
      /\ tool.pc = "returned"
      /\ tool.response.isError
      /\ tool.images = <<>>
      /\ tool.saveLog = <<>> /\ tool.savedFiles = <<>>
      /\ calls[1] = IdleCall
      /\ files = InitFiles /\ dirs = InitDirs

\* the first download succeeded, the second failed: nothing was saved
C28_Witness ==
    /\ tool.name = "generate_image" /\ tool.pc = "returned"
    /\ tool.answered = [ok |-> TRUE, downloads |-> <<TRUE, FALSE>>]
    /\ tool.response.isError
    /\ tool.response.detail = "downloadFailed"
    /\ files = InitFiles

(***************************************************************************)
(* C29: the prefix of every saveImageToFile call made by a tool handler is *)
(* fixed by the code: "edited" for edit_image, "generated_" followed by a  *)
(* positive index for generate_image; it holds no "/", no "\" and no       *)
(* "..", and every file written for a tool request is a direct child of    *)
(* the output base directory.                                              *)
(***************************************************************************)
C29_PrefixFixedByTheCode ==
    /\ \A k \in DOMAIN tool.saveLog :
          LET prefix == tool.saveLog[k].prefix IN
          /\ prefix = IF tool.name = "edit_image" THEN <<"edited">> ELSE Numbered(k)
          /\ \A i \in DOMAIN prefix : prefix[i] \notin {"/", "\\", ".", ".."}
    /\ \A f \in DOMAIN files \ DOMAIN InitFiles :
          /\ IsPrefix(CanonSegs(BaseDirOf(imageDirEnv), cwd), CanonSegs(f, cwd))
          /\ Len(CanonSegs(f, cwd)) = Len(CanonSegs(BaseDirOf(imageDirEnv), cwd)) + 1
    /\ tool.name # "" /\ calls[1].pc \in {"write", "done"} =>
          /\ IsPrefix(CanonSegs(BaseDirOf(imageDirEnv), cwd),
                      CanonSegs(calls[1].filepath, cwd))
          /\ Len(CanonSegs(calls[1].filepath, cwd))
               = Len(CanonSegs(BaseDirOf(imageDirEnv), cwd)) + 1

\* generate_image saved its second image, with the prefix generated_2, in
\* the directory SILICONFLOW_IMAGE_DIR names
C29_Witness ==
    /\ tool.name = "generate_image" /\ tool.pc = "returned"
    /\ ~tool.response.isError
    /\ imageDirEnv = P_out
    /\ Len(tool.saveLog) = 2
    /\ tool.saveLog[2].prefix = <<"generated_2">>
    /\ dirname(tool.response.paths[2]) = P_out
    /\ Cardinality(DOMAIN files \ DOMAIN InitFiles) >= 1

(***************************************************************************)
(* C30: on a server with the default allowed directories and an unchanged  *)
(* environment, a path returned by a successful save is approved by the    *)
(* path guard whatever SILICONFLOW_IMAGE_DIR is: when a path listed by     *)
(* generate_image is handed to edit_image, the guard approves it and the   *)
(* file is read as a local file.  (Stated as claimed; the code breaks it.) *)
(***************************************************************************)
C30_SavedPathsCanBeEdited ==
    tool.name = "edit_image" /\ edit.pc = "request" =>
        /\ edit.guard = "allowed"
        /\ edit.readFrom \in {<<>>, Canon(edit.image, cwd)}
        /\ edit.readFrom # <<>> =>
             edit.imageContent.text = bufferToBase64(files[edit.readFrom])

=============================================================================
